---- MODULE Spec2Model ----
(***************************************************************************)
(* Analog-forecasting engine of SWx_modules.pattern_recognition:           *)
(*   analog.py     listing_analogs (greedy selection with blind windows)   *)
(*   splitting.py  get_length, format_dates_for_splitting,                 *)
(*                 get_counts_for_splitting, split_indexes, split_data     *)
(* Timestamps are integers; a Timedelta is an integer number of time       *)
(* units.  A DataFrame is represented by its index (the row labels), the   *)
(* criterion scores being looked up by label.                              *)
(***************************************************************************)
EXTENDS Integers, Sequences, FiniteSets, TLC

\* ------------------------------------------------------------------ bounds
MaxPool == 4      \* rows of the criterion series handed to listing_analogs
MaxScore == 2     \* criterion scores range over 0..MaxScore
MaxWin == 2       \* blind-window half lengths range over 0..MaxWin
MaxNb == 2        \* explicit nb_analogs ranges over 1..MaxNb

\* ------------------------------------------------------- python-like values
\* None, and the tagged values an optional keyword argument may hold.
None == [k |-> "none", v |-> 0]
IntV(n) == [k |-> "int", v |-> n]
Td(n) == [k |-> "td", v |-> n]
Other == [k |-> "other", v |-> 0]

MinOf(S) == CHOOSE x \in S : \A y \in S : x <= y
MaxOf(S) == CHOOSE x \in S : \A y \in S : x >= y

\* =========================================================================
\* analog.py : listing_analogs
\* =========================================================================
VARIABLES
    crit,                \* the caller's criterion frame: row label -> <<score col 1, score col 2>>
    name_column,         \* [list |-> BOOLEAN, cols |-> sequence of column numbers]
    nb_analogs,          \* None (default len(df_crit)) or IntV(n)
    blind_window_length, \* <<before, after>>, each None, Td(n) or Other
    df_crit,             \* the local frame of listing_analogs: the sequence of its row labels
    list_analogs,        \* the list returned on the single-column and the nsmallest paths
    list_analogs_col,    \* the list of the column being processed (multi-column path)
    analogs_by_col,      \* the dict returned on the multi-column path: column -> list
    col_i,               \* position of the for loop in name_column
    sel_pc               \* "call", "while", "for", "returned", "raised"

selVars == <<crit, name_column, nb_analogs, blind_window_length, df_crit,
             list_analogs, list_analogs_col, analogs_by_col, col_i, sel_pc>>

\* the state of splitting.py (split_data and the functions it calls)
VARIABLES
    resolution,  \* df.index[1] - df.index[0] of the (regular) series
    nrows,       \* len(df.index); row i (0-based) is labelled Idx(i)
    kw,          \* the keyword arguments of split_data
    fmt,         \* pattern_start, pattern_end, test_start, test_end after formatting
    sizes,       \* pattern_size, test_size, whole_count
    starts,      \* pattern_start_index, test_start_index
    ranges,      \* train_past_range, train_future_range, pattern_range, test_range
    data,        \* the frames split_data returns, each the set of its row positions
    split_pc,    \* "call", "formatted", "counted", "indexed", "done", "raised"
    split_err    \* the exception raised, "" if none

splitVars == <<resolution, nrows, kw, fmt, sizes, starts, ranges, data, split_pc, split_err>>

\* the state of a call of splitting.get_length on the series (resolution, nrows)
VARIABLES
    len_arg,     \* the keyword given: IntV(n) for count = n, Td(d) for time_length = d
    len_out,     \* the (time_length, count, resolution) returned
    len_back,    \* what get_length returns for time_length = the time_length returned
    len_pc       \* "call", "returned", "back"

lenVars == <<len_arg, len_out, len_back, len_pc>>

\* the state of a call of analog.extract_analogs on the series (resolution, nrows)
VARIABLES
    df_columns,      \* the columns of the DataFrame object passed as df
    analogs_index,   \* the analog timestamps, in selection order
    size_analog,     \* the positional argument
    ext_kwargs,      \* size_forecast, nb_extracted, index_position: None or IntV(n)
    frames,          \* the windows extracted so far, in order
    df_out,          \* the concatenation returned: analog timestamp -> window
    ext_pc,          \* "call", "for", "concat", "returned", "raised"
    ext_err          \* the exception raised, "" if none

extVars == <<df_columns, analogs_index, size_analog, ext_kwargs, frames, df_out,
             ext_pc, ext_err>>

\* the state of a pipeline.Pipeline and of the DataFrame objects it refers to
VARIABLES
    args,        \* the arguments of Pipeline(...)
    self,        \* the attributes of the Pipeline object
    has,         \* the names of the attributes that are set (hasattr)
    objects,     \* the DataFrame objects: object name -> [cols, values]
    pipe_pc,     \* "new", the stage __init__ is at, "constructed", "raised"
    pipe_err,    \* the exception raised, "" if none
    pipe_log,    \* the stage methods entered so far, in order
    calls        \* the number of stage methods invoked after construction

pipeVars == <<args, self, has, objects, pipe_pc, pipe_err, pipe_log, calls>>

\* the state of MSE().compute(y, y_ref=y_ref) and MdSE().compute(y, y_ref=y_ref)
VARIABLES
    y_arr,       \* y, the candidate array
    y_ref,       \* the reference: None, or an array
    mse_out,     \* what MSE.compute returned or raised
    mdse_out,    \* what MdSE.compute returned or raised
    mse_pc,      \* "call", "returned", "raised"
    mdse_pc      \* "call", "returned", "raised"

critVars == <<y_arr, y_ref, mse_out, mdse_out, mse_pc, mdse_pc>>

\* the state of recording_analogs.record_analogs and of the files it records
VARIABLES
    files,       \* the store: file name -> [exists, date], date from the metadata
    clock,       \* datetime.now(), counted in saves
    rec_kwargs,  \* save_crit, and the number of columns of kwargs_criterion
    computed,    \* what the current run has computed: "split", "criterion", file names
    rec_pc,      \* "params", "criterion", "analogues", "end"
    runs         \* the number of runs completed

recVars == <<files, clock, rec_kwargs, computed, rec_pc, runs>>

\* the state of the sweep of make_forecast_RMSE.py over a multiprocessing.Pool
VARIABLES
    task,        \* combination -> "pending", "running", "done", "raised", "killed"
    will_raise,  \* combination -> whether its record_analogs run raises
    results,     \* the combinations whose result waits for the parent, in order
    printed,     \* the combinations whose result the parent has printed
    parent_pc    \* "iterating", "finished", "aborted"

poolVars == <<task, will_raise, results, printed, parent_pc>>

\* the state of a call of splitting.get_length with any keywords, on the series
\* (resolution, nrows)
VARIABLES
    res_kwargs,  \* date_start, date_end, portion, count, time_length, error
    res_out,     \* the exception raised, or the (time_length, count, resolution) returned
    res_pc       \* "call", "returned", "raised"

resVars == <<res_kwargs, res_out, res_pc>>

\* the state of a call of moving_application of a criterion
VARIABLES
    mov_kwargs,  \* criterion, nanprop (in tenths), length (the rows of df_ref)
    mov_df,      \* the candidate frame: column -> the sequence of its cells
    mov_ref,     \* df_ref: column -> the sequence of its cells
    mov_out,     \* df_out: the sequence of its columns, [name, scores]
    mov_pc,      \* "call", "for", "returned", "raised"
    mov_err      \* the exception raised, "" if none

movVars == <<mov_kwargs, mov_df, mov_ref, mov_out, mov_pc, mov_err>>

\* the state of a call of SpectralSlope.compute
VARIABLES
    sp_signals,  \* y, or with df the columns of df over the window of y
    sp_with_df,  \* whether the keyword df is given
    sp_out,      \* what compute returned or raised
    sp_pc        \* "call", "returned", "raised"

spVars == <<sp_signals, sp_with_df, sp_out, sp_pc>>

\* the state of the standards of the process and of the Pipelines that use them
VARIABLES
    STANDARDS,   \* standard name -> the attributes of the instance loaded at import
    pipelines    \* Pipeline -> standard_name, data, original_data, ...

stdVars == <<STANDARDS, pipelines>>

\* the components added to the core of the engine
lateVars == <<resVars, movVars, spVars, stdVars>>

\* what the operations of one component leave alone
notSel == <<splitVars, lenVars, extVars, pipeVars, critVars, recVars, poolVars, lateVars>>
notSplit == <<selVars, lenVars, extVars, pipeVars, critVars, recVars, poolVars, lateVars>>
notLen == <<selVars, splitVars, extVars, pipeVars, critVars, recVars, poolVars, lateVars>>
notExt == <<selVars, splitVars, lenVars, pipeVars, critVars, recVars, poolVars, lateVars>>
notPipe == <<selVars, splitVars, lenVars, extVars, critVars, recVars, poolVars, lateVars>>
notCrit == <<selVars, splitVars, lenVars, extVars, pipeVars, recVars, poolVars, lateVars>>
notRec == <<selVars, splitVars, lenVars, extVars, pipeVars, critVars, poolVars, lateVars>>
notPool == <<selVars, splitVars, lenVars, extVars, pipeVars, critVars, recVars, lateVars>>

\* the variables of the core components
coreVars == <<selVars, splitVars, lenVars, extVars, pipeVars, critVars, recVars, poolVars>>
notRes == <<coreVars, movVars, spVars, stdVars>>
notMov == <<coreVars, resVars, spVars, stdVars>>
notSp == <<coreVars, resVars, movVars, stdVars>>
notStd == <<coreVars, resVars, movVars, spVars>>

Columns == {1, 2}
CritIndex == 1 .. MaxPool
FullFrame == [i \in 1 .. MaxPool |-> i]

\* score of the row labelled t in column c
Score(t, c) == crit[t][c]

\* nb_analogs after the default of line 38
NbAnalogs == IF nb_analogs.k = "none" THEN Len(FullFrame) ELSE nb_analogs.v

\* df.loc[:x] and df.loc[x:] on a monotonic index: label slices, both ends included
LocUpTo(frame, x) == SelectSeq(frame, LAMBDA t : t <= x)
LocFrom(frame, x) == SelectSeq(frame, LAMBDA t : t >= x)

\* Series.idxmin: the label of the first row holding the minimum
IdxMin(frame, c) ==
    LET m == MinOf({Score(frame[i], c) : i \in DOMAIN frame})
        i0 == MinOf({i \in DOMAIN frame : Score(frame[i], c) = m})
    IN  frame[i0]

\* pd.concat([df_crit.loc[:t - before], df_crit.loc[t + after:]])
Deplete(frame, t, before, after) ==
    LocUpTo(frame, t - before) \o LocFrom(frame, t + after)

\* ordering of two rows by the columns given to nsmallest, the first column first
RECURSIVE KeyLess(_, _, _)
KeyLess(t, u, cols) ==
    IF cols = << >> THEN FALSE
    ELSE \/ Score(t, Head(cols)) < Score(u, Head(cols))
         \/ /\ Score(t, Head(cols)) = Score(u, Head(cols))
            /\ KeyLess(t, u, Tail(cols))

MinPositions(frame, cols) ==
    {i \in DOMAIN frame : \A j \in DOMAIN frame : ~KeyLess(frame[j], frame[i], cols)}

\* keep = 'last': of the rows of minimum score, the last one first
LastMinPos(frame, cols) == MaxOf(MinPositions(frame, cols))

\* the position nsmallest takes next: of the rows of minimum score, the first
\* one (keep = 'first', the default of DataFrame.nsmallest)
NSmallestPos(frame, cols) == MinOf(MinPositions(frame, cols))

RemoveAt(frame, i) == SubSeq(frame, 1, i - 1) \o SubSeq(frame, i + 1, Len(frame))

\* df_crit.nsmallest(n, columns).index
RECURSIVE NSmallest(_, _, _)
NSmallest(frame, n, cols) ==
    IF n <= 0 \/ Len(frame) = 0 THEN << >>
    ELSE LET i == NSmallestPos(frame, cols)
         IN  <<frame[i]>> \o NSmallest(RemoveAt(frame, i), n - 1, cols)

\* the column the default of line 37 or a scalar name_column designates
ChosenColumn == name_column.cols[1]

\* ---------------------------------------------------------------- actions
\* lines 37-47 and the loop set-up of lines 63-66 / 73
ListingAnalogsCall ==
    /\ sel_pc = "call"
    /\ IF blind_window_length[1].k # "td"
       THEN IF blind_window_length[1].k # "none"
            THEN /\ sel_pc' = "raised"
                 /\ UNCHANGED <<list_analogs, col_i>>
            ELSE /\ sel_pc' = "returned"
                 /\ list_analogs' = NSmallest(df_crit, NbAnalogs, name_column.cols)
                 /\ UNCHANGED col_i
       ELSE IF name_column.list
            THEN /\ sel_pc' = IF Len(name_column.cols) > 0 THEN "for" ELSE "returned"
                 /\ col_i' = 1
                 /\ UNCHANGED list_analogs
            ELSE /\ sel_pc' = "while"
                 /\ UNCHANGED <<list_analogs, col_i>>
    /\ UNCHANGED <<notSel, crit, name_column, nb_analogs, blind_window_length, df_crit,
                   list_analogs_col, analogs_by_col>>

\* lines 74-77: one iteration of the single-column while loop.  idxmin()[0] is the
\* first column's idxmin whatever name_column says.
SinglePick ==
    /\ sel_pc = "while"
    /\ Len(list_analogs) < NbAnalogs
    /\ Len(df_crit) > 0
    /\ LET t == IdxMin(df_crit, 1)
       IN  /\ list_analogs' = Append(list_analogs, t)
           /\ IF blind_window_length[2].k = "td"
              THEN /\ df_crit' = Deplete(df_crit, t, blind_window_length[1].v,
                                         blind_window_length[2].v)
                   /\ sel_pc' = "while"
              ELSE /\ sel_pc' = "raised"
                   /\ UNCHANGED df_crit
    /\ UNCHANGED <<notSel, crit, name_column, nb_analogs, blind_window_length,
                   list_analogs_col, analogs_by_col, col_i>>

\* lines 74, 79: the while condition fails and the list is returned
SingleReturn ==
    /\ sel_pc = "while"
    /\ ~(Len(list_analogs) < NbAnalogs /\ Len(df_crit) > 0)
    /\ sel_pc' = "returned"
    /\ UNCHANGED <<notSel, crit, name_column, nb_analogs, blind_window_length, df_crit,
                   list_analogs, list_analogs_col, analogs_by_col, col_i>>

\* lines 67-70: one iteration of the while loop of the column name_column[col_i]
ColPick ==
    /\ sel_pc = "for"
    /\ Len(list_analogs_col) < NbAnalogs
    /\ Len(df_crit) > 0
    /\ LET t == IdxMin(df_crit, name_column.cols[col_i])
       IN  /\ list_analogs_col' = Append(list_analogs_col, t)
           /\ IF blind_window_length[2].k = "td"
              THEN /\ df_crit' = Deplete(df_crit, t, blind_window_length[1].v,
                                         blind_window_length[2].v)
                   /\ sel_pc' = "for"
              ELSE /\ sel_pc' = "raised"
                   /\ UNCHANGED df_crit
    /\ UNCHANGED <<notSel, crit, name_column, nb_analogs, blind_window_length,
                   list_analogs, analogs_by_col, col_i>>

\* lines 65-67, 71, 79: the column's while loop ends, its list is stored, the for
\* loop moves to the next column (df_crit is not reset) or the dict is returned
ColDone ==
    /\ sel_pc = "for"
    /\ ~(Len(list_analogs_col) < NbAnalogs /\ Len(df_crit) > 0)
    /\ analogs_by_col' = (name_column.cols[col_i] :> list_analogs_col) @@ analogs_by_col
    /\ list_analogs_col' = << >>
    /\ col_i' = col_i + 1
    /\ sel_pc' = IF col_i < Len(name_column.cols) THEN "for" ELSE "returned"
    /\ UNCHANGED <<notSel, crit, name_column, nb_analogs, blind_window_length, df_crit,
                   list_analogs>>

\* ------------------------------------------------------------------ inputs
NameColumns ==
    { [list |-> FALSE, cols |-> <<1>>], [list |-> FALSE, cols |-> <<2>>],
      [list |-> TRUE, cols |-> <<1, 2>>], [list |-> TRUE, cols |-> <<2, 1>>] }

NbInputs == {None} \cup {IntV(n) : n \in 1 .. MaxNb}

WindowLengths == {Td(n) : n \in 0 .. MaxWin}

\* blind_window_length after lines 41-42 (a scalar x has become (x, x))
TimedeltaWindows == WindowLengths \X WindowLengths
NoWindows == { <<None, None>>, <<Other, Other>>, <<None, Td(1)>> }
BrokenWindows == { <<Td(1), None>> }

SelInit(windows) ==
    /\ \E f \in [CritIndex -> 0 .. MaxScore] :
          crit = [t \in CritIndex |-> <<f[t], MaxScore - f[t]>>]
    /\ name_column \in NameColumns
    /\ nb_analogs \in NbInputs
    /\ blind_window_length \in windows
    /\ df_crit = FullFrame
    /\ list_analogs = << >>
    /\ list_analogs_col = << >>
    /\ analogs_by_col = << >>
    /\ col_i = 0
    /\ sel_pc = "call"

SelNext == ListingAnalogsCall \/ SinglePick \/ SingleReturn \/ ColPick \/ ColDone

\* what the variables of listing_analogs hold while another component runs
SelIdle ==
    /\ crit = [t \in CritIndex |-> <<0, 0>>]
    /\ name_column = [list |-> FALSE, cols |-> <<1>>]
    /\ nb_analogs = None
    /\ blind_window_length = <<None, None>>
    /\ df_crit = << >>
    /\ list_analogs = << >>
    /\ list_analogs_col = << >>
    /\ analogs_by_col = << >>
    /\ col_i = 0
    /\ sel_pc = "idle"

\* =========================================================================
\* splitting.py
\* =========================================================================
Step == 2  \* the resolution of the series handed to split_data

Idx(i) == i * resolution
Rows == 0 .. nrows - 1

\* a datetime value
Dt(t) == [k |-> "dt", v |-> t]

\* lines 62-86: the value, or the exception, of date_formatting(df, date, error)
DateFormatting(date, error) ==
    IF date.k = "int"
    THEN IF date.v >= -nrows /\ date.v < nrows
         THEN [err |-> "", val |-> Dt(Idx(IF date.v < 0 THEN date.v + nrows ELSE date.v))]
         ELSE [err |-> "IndexError", val |-> None]
    ELSE IF date.k = "dt"
         THEN [err |-> "", val |-> date]
         ELSE IF error THEN [err |-> "TypeError", val |-> None]
                       ELSE [err |-> "", val |-> None]

\* lines 88-101
get_length_from_count(count) ==
    [time_length |-> Td(resolution * count), count |-> IntV(count),
     resolution |-> Td(resolution)]

\* df.loc[a:b] on the series: the positions of the rows labelled within [a, b]
Loc(a, b) == {i \in Rows : a <= Idx(i) /\ Idx(i) <= b}
\* df.loc[:b]
LocTo(b) == {i \in Rows : Idx(i) <= b}

\* lines 103-116
get_length_from_dates(date_1, date_2) ==
    get_length_from_count(Cardinality(Loc(date_1, date_2)))

\* int(x / y) for integers: truncation towards zero
TruncDiv(x, y) == IF x >= 0 THEN x \div y ELSE -((-x) \div y)

\* lines 118-130; a portion is held in tenths
get_length_from_portion(portion) ==
    get_length_from_count(TruncDiv(nrows * portion, 10))

\* the count rounded up instead of truncated
get_length_from_time_length_rounded_up(time_length) ==
    get_length_from_count(TruncDiv(time_length + (Idx(1) - Idx(0)), Idx(1) - Idx(0)))

\* lines 132-144
get_length_from_time_length(time_length) ==
    get_length_from_count(TruncDiv(time_length, Idx(1) - Idx(0)))

NoLength == [time_length |-> None, count |-> None, resolution |-> None]

\* get_length looking at the duration before the count
get_length_duration_first(date_start, date_end, portion, count, time_length, error) ==
    IF ~(date_start.k = "none" \/ date_end.k = "none")
    THEN LET s == DateFormatting(date_start, TRUE)
             e == DateFormatting(date_end, TRUE)
         IN  IF s.err # "" THEN [err |-> s.err, val |-> NoLength]
             ELSE IF e.err # "" THEN [err |-> e.err, val |-> NoLength]
             ELSE IF e.val.v < s.val.v
                  THEN [err |-> "", val |-> get_length_from_dates(e.val.v, s.val.v)]
                  ELSE [err |-> "", val |-> get_length_from_dates(s.val.v, e.val.v)]
    ELSE IF time_length.k = "td"
         THEN [err |-> "", val |-> get_length_from_time_length(time_length.v)]
    ELSE IF count.k = "int" THEN [err |-> "", val |-> get_length_from_count(count.v)]
    ELSE IF portion.k = "float"
         THEN [err |-> "", val |-> get_length_from_portion(portion.v)]
    ELSE IF error THEN [err |-> "", val |-> NoLength]
    ELSE [err |-> "", val |-> get_length_from_count(nrows)]

\* lines 146-212; [err, val] as for DateFormatting
get_length(date_start, date_end, portion, count, time_length, error) ==
    IF ~(date_start.k = "none" \/ date_end.k = "none")
    THEN LET s == DateFormatting(date_start, TRUE)
             e == DateFormatting(date_end, TRUE)
         IN  IF s.err # "" THEN [err |-> s.err, val |-> NoLength]
             ELSE IF e.err # "" THEN [err |-> e.err, val |-> NoLength]
             ELSE IF e.val.v < s.val.v
                  THEN [err |-> "", val |-> get_length_from_dates(e.val.v, s.val.v)]
                  ELSE [err |-> "", val |-> get_length_from_dates(s.val.v, e.val.v)]
    ELSE IF count.k = "int" THEN [err |-> "", val |-> get_length_from_count(count.v)]
    ELSE IF time_length.k = "td"
         THEN [err |-> "", val |-> get_length_from_time_length(time_length.v)]
    ELSE IF portion.k = "float"
         THEN [err |-> "", val |-> get_length_from_portion(portion.v)]
    ELSE IF error THEN [err |-> "", val |-> NoLength]
    ELSE [err |-> "", val |-> get_length_from_count(nrows)]

\* ---------------------------------------------------------------- actions
Raise(e) ==
    /\ split_pc' = "raised"
    /\ split_err' = e

\* lines 229-246, called at line 329 (and the kwargs.update of lines 330-331)
format_dates_for_splitting ==
    /\ split_pc = "call"
    /\ LET ps == DateFormatting(kw.pattern_start, FALSE)
           pe == DateFormatting(kw.pattern_end, FALSE)
           ts == DateFormatting(kw.test_start, FALSE)
           te == DateFormatting(kw.test_end, FALSE)
           errs == <<ps.err, pe.err, ts.err, te.err>>
       IN  IF \E i \in 1 .. 4 : errs[i] # ""
           THEN /\ Raise(errs[MinOf({i \in 1 .. 4 : errs[i] # ""})])
                /\ UNCHANGED fmt
           ELSE IF pe.val.k = "none"
                THEN IF ts.val.k = "none"
                     THEN \* None - Timedelta
                          /\ Raise("TypeError")
                          /\ UNCHANGED fmt
                     ELSE /\ fmt' = [pattern_start |-> ps.val,
                                     pattern_end |-> Dt(ts.val.v - (Idx(1) - Idx(0))),
                                     test_start |-> ts.val, test_end |-> te.val]
                          /\ split_pc' = "formatted"
                          /\ UNCHANGED split_err
                ELSE /\ fmt' = [pattern_start |-> ps.val, pattern_end |-> pe.val,
                                test_start |-> IF ts.val.k = "none"
                                               THEN Dt(pe.val.v + (Idx(1) - Idx(0)))
                                               ELSE ts.val,
                                test_end |-> te.val]
                     /\ split_pc' = "formatted"
                     /\ UNCHANGED split_err
    /\ UNCHANGED <<notSplit, resolution, nrows, kw, sizes, starts, ranges, data>>

\* lines 279-302, called at line 332 with the formatted dates
get_counts_for_splitting ==
    /\ split_pc = "formatted"
    /\ LET whole == get_length(None, None, None, None, None, FALSE)
           pattern == get_length(fmt.pattern_start, fmt.pattern_end, kw.pattern_portion,
                                 kw.pattern_count, kw.pattern_length, TRUE)
           test == get_length(fmt.test_start, fmt.test_end, kw.test_portion,
                              kw.test_count, kw.test_length, TRUE)
           pattern_count == pattern.val.count
           test_count == test.val.count
       IN  IF pattern.err # "" THEN Raise(pattern.err) /\ UNCHANGED sizes
           ELSE IF test.err # "" THEN Raise(test.err) /\ UNCHANGED sizes
           ELSE IF pattern_count.k # "int" /\ test_count.k # "int"
                THEN Raise("ValueError") /\ UNCHANGED sizes
           ELSE /\ sizes' = [pattern_size |-> IF pattern_count.k # "int"
                                              THEN test_count.v ELSE pattern_count.v,
                             test_size |-> IF test_count.k # "int"
                                           THEN pattern_count.v ELSE test_count.v,
                             whole_count |-> whole.val.count.v]
                /\ split_pc' = "counted"
                /\ UNCHANGED split_err
    /\ UNCHANGED <<notSplit, resolution, nrows, kw, fmt, starts, ranges, data>>

\* list(df.index).index(date), or on a miss len(df.loc[:date].index)
IndexOrFallback(date) ==
    IF \E i \in Rows : Idx(i) = date
    THEN CHOOSE i \in Rows : Idx(i) = date
    ELSE Cardinality(LocTo(date))

\* lines 335-354
TestStartIndex ==
    IF fmt.test_start.k = "dt" THEN IndexOrFallback(fmt.test_start.v)
    ELSE IF fmt.pattern_start.k = "dt"
         THEN IndexOrFallback(fmt.pattern_start.v) + sizes.pattern_size
    ELSE IF fmt.test_end.k = "dt"
         THEN IndexOrFallback(fmt.test_end.v) - sizes.test_size
    ELSE 0 - sizes.test_size

\* lines 356-362
PatternStartIndex ==
    IF fmt.pattern_start.k = "dt" THEN IndexOrFallback(fmt.pattern_start.v)
    ELSE TestStartIndex - sizes.pattern_size

\* df.iloc[start:stop]: python slicing, negative positions count from the end
SliceBound(x) == IF x < 0 THEN MaxOf({x + nrows, 0}) ELSE MinOf({x, nrows})
ILoc(start, stop) == {i \in Rows : SliceBound(start) <= i /\ i < SliceBound(stop)}

\* [indexes[0], indexes[-1]]
RangeOf(rows) == <<Idx(MinOf(rows)), Idx(MaxOf(rows))>>

\* line 365 and line 367
PatternIndexes == ILoc(PatternStartIndex, PatternStartIndex + sizes.pattern_size)
TestIndexes == ILoc(TestStartIndex, TestStartIndex + sizes.test_size)

\* lines 372-376
HasTrainPast == PatternStartIndex > sizes.pattern_size
TrainPastIndexes == ILoc(0, PatternStartIndex)

\* lines 377-381
HasTrainFuture == TestStartIndex + sizes.test_size + sizes.pattern_size < sizes.whole_count
\* a future segment that starts only after a guard band of pattern_size rows
TrainFutureStartAfterGuard == TestStartIndex + sizes.test_size + sizes.pattern_size

TrainFutureStart == TestStartIndex + sizes.test_size
TrainFutureIndexes == ILoc(TrainFutureStart, 0 - sizes.test_size)

NoRange == << >>

\* lines 334-384
split_indexes ==
    /\ split_pc = "counted"
    /\ starts' = [pattern_start_index |-> PatternStartIndex,
                  test_start_index |-> TestStartIndex]
    /\ IF \/ PatternIndexes = {}
          \/ TestIndexes = {}
          \/ HasTrainPast /\ TrainPastIndexes = {}
          \/ HasTrainFuture /\ TrainFutureIndexes = {}
       THEN \* indexes[0] of an empty index
            /\ Raise("IndexError")
            /\ UNCHANGED ranges
       ELSE /\ ranges' = [train_past |-> IF HasTrainPast THEN RangeOf(TrainPastIndexes)
                                         ELSE NoRange,
                          train_future |-> IF HasTrainFuture
                                           THEN RangeOf(TrainFutureIndexes) ELSE NoRange,
                          pattern |-> RangeOf(PatternIndexes),
                          test |-> RangeOf(TestIndexes)]
            /\ split_pc' = "indexed"
            /\ UNCHANGED split_err
    /\ UNCHANGED <<notSplit, resolution, nrows, kw, fmt, sizes, data>>

\* lines 415-422
split_data ==
    /\ split_pc = "indexed"
    /\ IF ranges.train_past = NoRange \/ ranges.train_future = NoRange
       THEN \* None[0]
            /\ Raise("TypeError")
            /\ UNCHANGED data
       ELSE /\ data' = [test |-> Loc(ranges.test[1], ranges.test[2]),
                        pattern |-> Loc(ranges.pattern[1], ranges.pattern[2]),
                        train_past |-> Loc(ranges.train_past[1], ranges.train_past[2]),
                        train_future |-> Loc(ranges.train_future[1],
                                             ranges.train_future[2])]
            /\ split_pc' = "done"
            /\ UNCHANGED split_err
    /\ UNCHANGED <<notSplit, resolution, nrows, kw, fmt, sizes, starts, ranges>>

SplitNext ==
    format_dates_for_splitting \/ get_counts_for_splitting \/ split_indexes \/ split_data

\* ------------------------------------------------------------------ inputs
MaxRows == 6     \* rows of the series handed to split_data
MaxCount == 2    \* explicit pattern_count / test_count range over 1..MaxCount

NoKw == [pattern_start |-> None, pattern_end |-> None, pattern_portion |-> None,
         pattern_count |-> None, pattern_length |-> None,
         test_start |-> None, test_end |-> None, test_portion |-> None,
         test_count |-> None, test_length |-> None]

\* the state before split_data is called on a series of n rows, r apart
SeriesStart(r, n, kwargs) ==
    /\ resolution = r
    /\ nrows = n
    /\ kw = kwargs
    /\ fmt = [pattern_start |-> None, pattern_end |-> None,
              test_start |-> None, test_end |-> None]
    /\ sizes = [pattern_size |-> 0, test_size |-> 0, whole_count |-> 0]
    /\ starts = [pattern_start_index |-> 0, test_start_index |-> 0]
    /\ ranges = [train_past |-> NoRange, train_future |-> NoRange,
                 pattern |-> NoRange, test |-> NoRange]
    /\ data = [test |-> {}, pattern |-> {}, train_past |-> {}, train_future |-> {}]
    /\ split_err = ""

SplitStart(n, kwargs) == SeriesStart(Step, n, kwargs)

\* dates on the rows, between two rows, before the first and after the last row
DateInputs == {None} \cup {Dt(t) : t \in -1 .. (MaxRows - 1) * Step + 1}
EndInputs == {None, Dt((MaxRows - 2) * Step), Dt((MaxRows - 1) * Step - 1)}
CountInputs == {None} \cup {IntV(n) : n \in 1 .. MaxCount}

SplitInit ==
    /\ \E ps \in DateInputs, pe \in DateInputs, ts \in DateInputs, te \in EndInputs,
          pc \in CountInputs, tc \in CountInputs :
          SplitStart(MaxRows,
                     [NoKw EXCEPT !.pattern_start = ps, !.pattern_end = pe,
                                  !.test_start = ts, !.test_end = te,
                                  !.pattern_count = pc, !.test_count = tc])
    /\ split_pc = "call"

SplitIdle ==
    /\ SplitStart(MaxRows, NoKw)
    /\ split_pc = "idle"

\* =========================================================================
\* analog.py : extract_analogs
\* =========================================================================
\* test_argument.in_dic_or_default(key, kwargs, default=d) for an integer default
in_dic_or_default(value, default) == IF value.k = "none" THEN default ELSE value.v

\* lines 97-101
SizeForecast == in_dic_or_default(ext_kwargs.size_forecast, size_analog)
NbExtracted == in_dic_or_default(ext_kwargs.nb_extracted, Len(analogs_index))
IndexPosition == in_dic_or_default(ext_kwargs.index_position, -1)

\* df.index.get_loc(date): the position of the row labelled date, -1 for a KeyError
GetLoc(date) ==
    IF \E i \in Rows : Idx(i) = date THEN CHOOSE i \in Rows : Idx(i) = date ELSE -1

\* the rows of a positional slice, in order
RowSeq(rows) ==
    IF rows = {} THEN << >> ELSE [j \in 1 .. Cardinality(rows) |-> MinOf(rows) + j - 1]

\* np.arange(0, n, 1)
ARange(n) == [j \in 1 .. n |-> j - 1]

\* line 112
NumIndex(date) == GetLoc(date) - IndexPosition

\* lines 113-114: df.iloc[num_index - size_analog:num_index + size_forecast],
\* relabelled 0 .. len - 1
DfAnalog(date) ==
    LET rows == RowSeq(ILoc(NumIndex(date) - size_analog, NumIndex(date) + SizeForecast))
    IN  [date |-> date, rows |-> rows, index |-> ARange(Len(rows))]

\* lines 97-108
ExtractAnalogsCall ==
    /\ ext_pc = "call"
    /\ analogs_index' = IF NbExtracted < Len(analogs_index)
                        THEN SubSeq(analogs_index, 1,
                                    IF NbExtracted >= 0 THEN NbExtracted
                                    ELSE MaxOf({Len(analogs_index) + NbExtracted, 0}))
                        ELSE analogs_index
    /\ df_columns' = df_columns \cup {"date"}
    /\ frames' = << >>
    /\ ext_pc' = "for"
    /\ UNCHANGED <<notExt, size_analog, ext_kwargs, df_out, ext_err>>

\* lines 111-115: one iteration of the for loop
ExtractOne ==
    /\ ext_pc = "for"
    /\ Len(frames) < Len(analogs_index)
    /\ LET date == analogs_index[Len(frames) + 1]
       IN  IF GetLoc(date) = -1
           THEN /\ ext_pc' = "raised"
                /\ ext_err' = "KeyError"
                /\ UNCHANGED frames
           ELSE /\ frames' = Append(frames, DfAnalog(date))
                /\ UNCHANGED <<ext_pc, ext_err>>
    /\ UNCHANGED <<notExt, df_columns, analogs_index, size_analog, ext_kwargs, df_out>>

\* lines 118-119: pd.concat(frames, keys=analogs_index)
ExtractConcat ==
    /\ ext_pc = "for"
    /\ Len(frames) = Len(analogs_index)
    /\ IF frames = << >>
       THEN /\ ext_pc' = "raised"
            /\ ext_err' = "ValueError"
            /\ UNCHANGED df_out
       ELSE /\ df_out' = frames
            /\ ext_pc' = "returned"
            /\ UNCHANGED ext_err
    /\ UNCHANGED <<notExt, df_columns, analogs_index, size_analog, ext_kwargs, frames>>

ExtNext == ExtractAnalogsCall \/ ExtractOne \/ ExtractConcat

MaxSize == 2      \* size_analog, size_forecast range over 1..MaxSize
MaxAnalogs == 2   \* at most MaxAnalogs analog timestamps are handed over

NoExtKw == [size_forecast |-> None, nb_extracted |-> None, index_position |-> None]

ExtStart(cols, index, size, kwargs) ==
    /\ df_columns = cols
    /\ analogs_index = index
    /\ size_analog = size
    /\ ext_kwargs = kwargs
    /\ frames = << >>
    /\ df_out = << >>
    /\ ext_err = ""

\* the labels of the rows, and one timestamp between two rows
AnalogLabels == {i * Step : i \in 0 .. MaxRows - 1} \cup {Step + 1}

\* lists of distinct timestamps
AnalogLists ==
    {l \in UNION {[1 .. n -> AnalogLabels] : n \in 0 .. MaxAnalogs} :
        \A i, j \in DOMAIN l : i # j => l[i] # l[j]}

SizeInputs == {None} \cup {IntV(n) : n \in 1 .. MaxSize}

ExtInit ==
    /\ \E index \in AnalogLists, size \in 1 .. MaxSize, sf \in SizeInputs,
          nb \in {None, IntV(1)}, ip \in {None, IntV(0)} :
          ExtStart({"V"}, index, size,
                   [size_forecast |-> sf, nb_extracted |-> nb, index_position |-> ip])
    /\ ext_pc = "call"

ExtIdle ==
    /\ ExtStart({"V"}, << >>, 1, NoExtKw)
    /\ ext_pc = "idle"

\* =========================================================================
\* pipeline.py : Pipeline
\* =========================================================================
\* A DataFrame is held by its columns and by the scale of its values.
NoFrame == [cols |-> {}, values |-> "none"]
Frame(cols, values) == [cols |-> cols, values |-> values]

\* an option of kwargs_analogs: absent, a scalar, or a list of values
Absent == [k |-> "absent", v |-> << >>]
Scalar(x) == [k |-> "scalar", v |-> <<x>>]
ListOf(l) == [k |-> "list", v |-> l]

\* an array (or a plain result) of tagged results
NoResult == [array |-> FALSE, items |-> << >>]

Stages == <<"set_standardizing", "set_splitting", "set_criterion",
            "set_analogs_index", "set_ensemble_analogs">>
StageNames == {Stages[i] : i \in DOMAIN Stages}
StageNo(st) == CHOOSE i \in DOMAIN Stages : Stages[i] = st

\* lines 65-78: the flag of __init__ that enables a stage
StageEnabled(st) ==
    CASE st = "set_standardizing" -> args.standardizing
      [] st = "set_splitting" -> args.split
      [] st = "set_criterion" -> args.calcul_crit
      [] st = "set_analogs_index" -> args.list_analog
      [] st = "set_ensemble_analogs" -> args.extract_analog

\* where __init__ goes after a stage
NextStage(st) == IF StageNo(st) = Len(Stages) THEN "constructed" ELSE Stages[StageNo(st) + 1]

\* the outcome of a method: the exception, and the attributes and objects it leaves
Outcome(err, s, h, o) == [err |-> err, self |-> s, has |-> h, objects |-> o]

\* set_data without the test of lines 84-85: the file wins over the data
set_data_loading_over_data(s, h, o) ==
    IF s.filename = "none" /\ s.data = "none" THEN Outcome("ValueError", s, h, o)
    ELSE IF s.filename # "none"
         THEN Outcome("", [s EXCEPT !.data = "loaded"], h,
                      [o EXCEPT !["loaded"] = Frame({"V"}, "physical")])
    ELSE IF s.data = "not_a_frame" THEN Outcome("TypeError", s, h, o)
    ELSE IF s.data = "no_datetime_index" THEN Outcome("TypeError", s, h, o)
    ELSE Outcome("", s, h, o)

\* lines 81-93
set_data(s, h, o) ==
    IF s.filename = "none" /\ s.data = "none" THEN Outcome("ValueError", s, h, o)
    ELSE IF s.filename # "none" /\ s.data # "none" THEN Outcome("ValueError", s, h, o)
    ELSE IF s.filename # "none"
         THEN Outcome("", [s EXCEPT !.data = "loaded"], h,
                      [o EXCEPT !["loaded"] = Frame({"V"}, "physical")])
    ELSE IF s.data = "not_a_frame" THEN Outcome("TypeError", s, h, o)
    ELSE IF s.data = "no_datetime_index" THEN Outcome("TypeError", s, h, o)
    ELSE Outcome("", s, h, o)

\* standardize(df): a new DataFrame holding the standardized numeric columns (the
\* statistics of a standardized frame leave its values as they are)
Standardize(df) == Frame(df.cols \ {"date"}, "standard")

\* lines 95-107; kwargs is the dictionary the method is called with
set_standardizing(s, h, o, kwargs) ==
    IF "standard_name" \notin h /\ kwargs.standard = ""
    THEN Outcome("ValueError", s, h, o)
    ELSE Outcome("",
                 [s EXCEPT !.standard_name = IF "standard_name" \in h THEN @
                                             ELSE kwargs.standard,
                           !.kwargs_standard = [standard |-> ""],
                           !.original_data = o[s.data],
                           !.data = "std"],
                 h \cup {"standard_name", "original_data", "standard"},
                 [o EXCEPT !["std"] = Standardize(o[s.data])])

\* a window of df that split_data returns for the split specification given
Part(df, split) == [cols |-> df.cols, values |-> df.values, split |-> split]

\* the split specification a frame was cut by, 0 if it is no window of a split
SplitOf(frame) == IF "split" \in DOMAIN frame THEN frame.split ELSE 0

\* lines 110-114: kwargs_splitting is updated with the options given (split 0: no
\* option given), split_data returns the windows of self.data for it
set_splitting(s, h, o, kwargs) ==
    LET split == IF kwargs.split = 0 THEN s.kwargs_splitting.split ELSE kwargs.split
    IN  Outcome("",
                [s EXCEPT !.kwargs_splitting = [split |-> split],
                          !.data_train = Part(o[s.data], split),
                          !.data_pattern = Part(o[s.data], split),
                          !.data_forecast = Part(o[s.data], split),
                          !.kwargs_analogs = [@ EXCEPT !.size_analog = "counts[0]",
                                                       !.size_forecast = "counts[1]"]],
                h \cup {"data_train", "data_pattern", "data_forecast"}, o)

NoCriterion == [name |-> "", train |-> NoFrame, ref |-> NoFrame]

\* lines 116-126
set_criterion(s, h, o, kwargs) ==
    IF "criterion_name" \notin h /\ kwargs.criterion = ""
    THEN Outcome("ValueError", s, h, o)
    ELSE LET name == IF "criterion_name" \in h THEN s.criterion_name ELSE kwargs.criterion
             s1 == [s EXCEPT !.criterion_name = name]
             h1 == h \cup {"criterion_name"}
         IN  IF "data_train" \notin h
             THEN Outcome("AttributeError",
                          [s1 EXCEPT !.criterion = [NoCriterion EXCEPT !.name = name]],
                          h1 \cup {"criterion"}, o)
             ELSE Outcome("",
                          [s1 EXCEPT !.criterion = [name |-> name, train |-> s.data_train,
                                                    ref |-> s.data_pattern]],
                          h1 \cup {"criterion"}, o)

\* listing_analogs(self.criterion_name, self.criterion, blind_window_length=l, ...)
ListingOf(s, l) == [blind_window_length |-> l, nb_extracted |-> 0, of |-> s.criterion.train]

\* lines 128-144
set_analogs_index(s, h, o, kwargs) ==
    IF "criterion_name" \notin h /\ kwargs.criterion = ""
    THEN Outcome("ValueError", s, h, o)
    ELSE LET s1 == [s EXCEPT !.criterion_name = IF "criterion_name" \in h THEN @
                                                ELSE kwargs.criterion]
             h1 == h \cup {"criterion_name"}
             bwl == s.kwargs_analogs.blind_window_length
         IN  IF bwl.k = "absent" THEN Outcome("KeyError", s1, h1, o)
             ELSE IF "criterion" \notin h THEN Outcome("AttributeError", s1, h1, o)
             ELSE Outcome("",
                          [s1 EXCEPT !.analogs_index =
                               [array |-> bwl.k = "list",
                                items |-> [i \in DOMAIN bwl.v |-> ListingOf(s, bwl.v[i])]]],
                          h1 \cup {"analogs_index"}, o)

\* analoglib.extract_analogs(self.data, analog_index, nb_extracted=n, ...): the
\* ensemble of the windows of self.data, which has received the column 'date'
WithDate(df) == Frame(df.cols \cup {"date"}, df.values)
EnsembleOf(s, o, l, n) ==
    [blind_window_length |-> l, nb_extracted |-> n, of |-> WithDate(o[s.data]),
     listed |-> IF s.analogs_index.items = << >> THEN NoFrame
                ELSE s.analogs_index.items[1].of]

\* the pairs (l, n) in the order of the nested loops of lines 161-165
Pairs(ls, ns) ==
    [i \in 1 .. Len(ls) * Len(ns) |->
        <<ls[((i - 1) \div Len(ns)) + 1], ns[((i - 1) % Len(ns)) + 1]>>]

\* lines 146-175
set_ensemble_analogs(s, h, o) ==
    LET nb == s.kwargs_analogs.nb_extracted
        index == s.analogs_index
        tags == [i \in DOMAIN index.items |-> index.items[i].blind_window_length]
        extracted == [o EXCEPT ![s.data] = WithDate(@)]
        done(items, array) ==
            IF items # << >> /\ s.kwargs_analogs.size_analog = ""
            THEN Outcome("TypeError", s, h, o)
            ELSE Outcome("",
                         [s EXCEPT !.ensemble_analogs = [array |-> array, items |-> items]],
                         h \cup {"ensemble_analogs"},
                         IF items = << >> THEN o ELSE extracted)
    IN  IF nb.k = "absent" THEN Outcome("KeyError", s, h, o)
        ELSE IF "analogs_index" \notin h THEN Outcome("AttributeError", s, h, o)
        ELSE IF nb.k = "list" \/ index.array
        THEN IF index.array
             THEN IF nb.k = "list"
                  THEN LET pairs == Pairs(tags, nb.v)
                       IN  done([i \in DOMAIN pairs |->
                                    EnsembleOf(s, o, pairs[i][1], pairs[i][2])], TRUE)
                  ELSE IF tags = << >> THEN done(<< >>, TRUE)
                       \* kwargs_analogs is assigned at line 155 only
                       ELSE Outcome("UnboundLocalError", s, h, o)
             ELSE done([i \in DOMAIN nb.v |-> EnsembleOf(s, o, 0, nb.v[i])], TRUE)
        ELSE done(<<EnsembleOf(s, o, 0, 0)>>, FALSE)

\* ---------------------------------------------------------------- actions
NoKwargs == [standard |-> "", criterion |-> "", split |-> 0]

\* the outcome of the stage method st called with the dictionary kwargs
StageOutcome(st, kwargs) ==
    CASE st = "set_standardizing" -> set_standardizing(self, has, objects, kwargs)
      [] st = "set_splitting" -> set_splitting(self, has, objects, kwargs)
      [] st = "set_criterion" -> set_criterion(self, has, objects, kwargs)
      [] st = "set_analogs_index" -> set_analogs_index(self, has, objects, kwargs)
      [] st = "set_ensemble_analogs" -> set_ensemble_analogs(self, has, objects)

\* the dictionary __init__ passes to a stage (lines 66-78)
StoredKwargs ==
    [standard |-> self.kwargs_standard.standard, criterion |-> self.kwargs_criterion.criterion,
     split |-> self.kwargs_splitting.split]

Apply(out, pc) ==
    /\ self' = out.self
    /\ has' = out.has
    /\ objects' = out.objects
    /\ pipe_err' = out.err
    /\ pipe_pc' = IF out.err = "" THEN pc ELSE "raised"

\* lines 55-63: the start of __init__, with the call of set_data
PipelineInit ==
    /\ pipe_pc = "new"
    /\ LET out == set_data([self EXCEPT !.filename = args.filename, !.data = args.data],
                           has, objects)
       IN  Apply(IF out.err # "" THEN out
                 ELSE [out EXCEPT !.self.kwargs_standard = args.kwargs_standard,
                                  !.self.kwargs_splitting = args.kwargs_splitting,
                                  !.self.kwargs_criterion = args.kwargs_criterion,
                                  !.self.kwargs_analogs = args.kwargs_analogs],
                 Stages[1])
    /\ UNCHANGED <<notPipe, args, pipe_log, calls>>

MaxCalls == 1   \* stage methods invoked after the construction
MaxSplits == 2  \* the pattern and test specifications a Pipeline is split by

\* a stage method, called by __init__ (lines 65-78) or by the user afterwards with
\* no new option
Stage(st) ==
    /\ \/ /\ pipe_pc = st
          /\ IF StageEnabled(st)
             THEN /\ Apply(StageOutcome(st, StoredKwargs), NextStage(st))
                  /\ pipe_log' = Append(pipe_log, st)
             ELSE /\ pipe_pc' = NextStage(st)
                  /\ UNCHANGED <<self, has, objects, pipe_err, pipe_log>>
          /\ UNCHANGED calls
       \/ /\ pipe_pc = "constructed"
          /\ calls < MaxCalls
          /\ Apply(StageOutcome(st, NoKwargs), "constructed")
          /\ pipe_log' = Append(pipe_log, st)
          /\ calls' = calls + 1
    /\ UNCHANGED <<notPipe, args>>

SetStandardizing == Stage("set_standardizing")
SetSplitting == Stage("set_splitting")
SetCriterion == Stage("set_criterion")
SetAnalogsIndex == Stage("set_analogs_index")
SetEnsembleAnalogs == Stage("set_ensemble_analogs")

PipeNext ==
    \/ PipelineInit
    \/ SetStandardizing
    \/ SetSplitting
    \/ SetCriterion
    \/ SetAnalogsIndex
    \/ SetEnsembleAnalogs

\* set_splitting(**kwargs) called after the construction with another pattern and
\* test specification (lines 110-114)
SetSplittingAnew ==
    /\ pipe_pc = "constructed"
    /\ calls < MaxCalls
    /\ \E split \in 1 .. MaxSplits :
          /\ split # self.kwargs_splitting.split
          /\ Apply(set_splitting(self, has, objects, [NoKwargs EXCEPT !.split = split]),
                   "constructed")
    /\ pipe_log' = Append(pipe_log, "set_splitting")
    /\ calls' = calls + 1
    /\ UNCHANGED <<notPipe, args>>

\* ------------------------------------------------------------------ inputs
MaxSweep == 2   \* a list of options holds 1..MaxSweep values

NoKwargsAnalogs == [blind_window_length |-> Absent, nb_extracted |-> Absent,
                    size_analog |-> "", size_forecast |-> ""]

BlankSelf ==
    [filename |-> "none", data |-> "none", original_data |-> NoFrame,
     standard_name |-> "", data_train |-> NoFrame, data_pattern |-> NoFrame,
     data_forecast |-> NoFrame, criterion |-> NoCriterion, criterion_name |-> "",
     analogs_index |-> NoResult, ensemble_analogs |-> NoResult,
     kwargs_standard |-> [standard |-> ""], kwargs_criterion |-> [criterion |-> ""],
     kwargs_splitting |-> [split |-> 0], kwargs_analogs |-> NoKwargsAnalogs]

\* the caller's DataFrame, and the places of the frame loaded from the file and of
\* the standardized frame
CallerObjects ==
    [caller |-> Frame({"V"}, "physical"), loaded |-> NoFrame, std |-> NoFrame]

DefaultArgs ==
    [filename |-> "none", data |-> "caller", standardizing |-> FALSE, split |-> TRUE,
     calcul_crit |-> TRUE, list_analog |-> TRUE, extract_analog |-> TRUE,
     kwargs_standard |-> [standard |-> "mean_std"],
     kwargs_criterion |-> [criterion |-> "mse"],
     kwargs_splitting |-> [split |-> 1],
     kwargs_analogs |-> [NoKwargsAnalogs EXCEPT !.blind_window_length = Scalar(1),
                                                !.nb_extracted = Scalar(1)]]

PipeStart(a) ==
    /\ args = a
    /\ self = BlankSelf
    /\ has = {}
    /\ objects = CallerObjects
    /\ pipe_err = ""
    /\ pipe_log = << >>
    /\ calls = 0

Options == {Absent, Scalar(1)} \cup {ListOf([i \in 1 .. k |-> i]) : k \in 1 .. MaxSweep}

\* exactly one of filename and data, the data being a DataFrame with a DatetimeIndex
Loadable(f, d) == (f = "file" /\ d = "none") \/ (f = "none" /\ d = "caller")

PipeInit ==
    /\ \E f \in {"none", "file"},
          d \in {"none", "caller", "not_a_frame", "no_datetime_index"},
          flags \in [1 .. 5 -> BOOLEAN],
          standard \in {"", "mean_std"}, criterion \in {"", "mse"},
          bwl \in Options, nb \in Options :
          /\ ~Loadable(f, d) =>
                /\ standard = "mean_std" /\ criterion = "mse"
                /\ bwl = Scalar(1) /\ nb = Scalar(1)
          /\ PipeStart([filename |-> f, data |-> d,
                        standardizing |-> flags[1], split |-> flags[2],
                        calcul_crit |-> flags[3], list_analog |-> flags[4],
                        extract_analog |-> flags[5],
                        kwargs_standard |-> [standard |-> standard],
                        kwargs_criterion |-> [criterion |-> criterion],
                        kwargs_splitting |-> [split |-> 1],
                        kwargs_analogs |-> [NoKwargsAnalogs EXCEPT
                                               !.blind_window_length = bwl,
                                               !.nb_extracted = nb]])
    /\ pipe_pc = "new"

PipeIdle ==
    /\ PipeStart(DefaultArgs)
    /\ pipe_pc = "idle"

\* =========================================================================
\* criteria/old_mse.py : MSE.compute, criteria/mdse.py : MdSE.compute
\* =========================================================================
\* an array, or None
Array(a) == [k |-> "array", v |-> a]

\* a float: NaN, or the fraction num / den
NaN == [k |-> "nan", num |-> 0, den |-> 1]
Num(n, d) == [k |-> "num", num |-> n, den |-> d]

RECURSIVE Sum(_)
Sum(a) == IF a = << >> THEN 0 ELSE a[1] + Sum(Tail(a))

\* (y - y_ref)**2
SquaredDiff(a, ref) == [i \in DOMAIN a |-> (a[i] - ref[i]) * (a[i] - ref[i])]

\* the values of an array in increasing order
RECURSIVE Sorted(_)
Sorted(a) ==
    IF a = << >> THEN << >>
    ELSE LET i == CHOOSE i \in DOMAIN a : \A j \in DOMAIN a : a[i] <= a[j]
         IN  <<a[i]>> \o Sorted(SubSeq(a, 1, i - 1) \o SubSeq(a, i + 1, Len(a)))

\* np.nanmean of an array without NaN (NaN, with a warning, for an empty array)
NanMean(a) == IF a = << >> THEN NaN ELSE Num(Sum(a), Len(a))

\* np.nanmedian of an array without NaN
NanMedian(a) ==
    IF a = << >> THEN NaN
    ELSE LET srt == Sorted(a)
             n == Len(a)
         IN  IF n % 2 = 1 THEN Num(srt[(n + 1) \div 2], 1)
             ELSE Num(srt[n \div 2] + srt[(n \div 2) + 1], 2)

\* lines 36-43 of both methods: y * 0 stands for a missing reference
Reference(a, ref) == IF ref.k = "none" THEN [i \in DOMAIN a |-> 0] ELSE ref.v

Returned(val) == [err |-> "", val |-> val]
Raised(err) == [err |-> err, val |-> NaN]

\* MSE.compute raising on a length mismatch, as MdSE.compute does
MSE_compute_strict(a, ref) ==
    IF Len(Reference(a, ref)) # Len(a) THEN Raised("ValueError")
    ELSE Returned(NanMean(SquaredDiff(a, Reference(a, ref))))

\* old_mse.py lines 24-53
MSE_compute(a, ref) ==
    IF Len(Reference(a, ref)) # Len(a) THEN Returned(NaN)
    ELSE Returned(NanMean(SquaredDiff(a, Reference(a, ref))))

\* mdse.py lines 26-54
MdSE_compute(a, ref) ==
    IF Len(Reference(a, ref)) # Len(a) THEN Raised("ValueError")
    ELSE Returned(NanMedian(SquaredDiff(a, Reference(a, ref))))

MSECompute ==
    /\ mse_pc = "call"
    /\ mse_out' = MSE_compute(y_arr, y_ref)
    /\ mse_pc' = IF mse_out'.err = "" THEN "returned" ELSE "raised"
    /\ UNCHANGED <<notCrit, y_arr, y_ref, mdse_out, mdse_pc>>

MdSECompute ==
    /\ mdse_pc = "call"
    /\ mdse_out' = MdSE_compute(y_arr, y_ref)
    /\ mdse_pc' = IF mdse_out'.err = "" THEN "returned" ELSE "raised"
    /\ UNCHANGED <<notCrit, y_arr, y_ref, mse_out, mse_pc>>

CritNext == MSECompute \/ MdSECompute

MaxLen == 2    \* arrays hold 0..MaxLen values
MaxVal == 1    \* the values of an array range over 0..MaxVal

Arrays == UNION {[1 .. n -> 0 .. MaxVal] : n \in 0 .. MaxLen}

CritStart(a, ref) ==
    /\ y_arr = a
    /\ y_ref = ref
    /\ mse_out = Returned(NaN)
    /\ mdse_out = Returned(NaN)

CritInit ==
    /\ \E a \in Arrays, ref \in {None} \cup {Array(r) : r \in Arrays} : CritStart(a, ref)
    /\ mse_pc = "call"
    /\ mdse_pc = "call"

CritIdle ==
    /\ CritStart(<< >>, None)
    /\ mse_pc = "idle"
    /\ mdse_pc = "idle"

\* =========================================================================
\* recording_analogs.py : record_analogs
\* =========================================================================
NoFile == [exists |-> FALSE, date |-> 0]

\* the analogues files of a run: one file for one column, one per quantity otherwise
\* (lines 72-74 and 96-98)
AnaloguesFiles(columns) ==
    IF columns = 1 THEN {"analogues"} ELSE {"analogues_1", "analogues_2"}
FileNames == {"params", "criterion", "analogues", "analogues_1", "analogues_2"}

\* the presence test skipped: every artifact is taken as missing
NeverRecorded(name) == FALSE

\* os.path.isfile(path + name_object + kwargs['name'] + extension)
AlreadyRecorded(name) == files[name].exists

\* save(obj, path, name, format, metadata): the file written with the date of the
\* save in its metadata (abstract_format.py lines 13-40)
Saved(store, names) ==
    [f \in FileNames |-> IF f \in names THEN [exists |-> TRUE, date |-> clock] ELSE store[f]]

\* lines 9-45: the Pipeline is built (and the series split), the parameter record is
\* saved whether or not it exists
RecordParams ==
    /\ rec_pc = "params"
    /\ computed' = {"split"}
    /\ files' = Saved(files, {"params"})
    /\ clock' = clock + 1
    /\ rec_pc' = "criterion"
    /\ UNCHANGED <<notRec, rec_kwargs, runs>>

\* lines 47-69
RecordCriterion ==
    /\ rec_pc = "criterion"
    /\ IF AlreadyRecorded("criterion")
       THEN UNCHANGED <<files, clock, computed>>
       ELSE /\ computed' = computed \cup {"criterion"}
            /\ IF rec_kwargs.save_crit
               THEN /\ files' = Saved(files, {"criterion"})
                    /\ clock' = clock + 1
               ELSE UNCHANGED <<files, clock>>
    /\ rec_pc' = "analogues"
    /\ UNCHANGED <<notRec, rec_kwargs, runs>>

\* lines 71-120
RecordAnalogues ==
    /\ rec_pc = "analogues"
    /\ LET missing == {f \in AnaloguesFiles(rec_kwargs.columns) : ~AlreadyRecorded(f)}
       IN  /\ computed' = computed \cup missing
           /\ files' = Saved(files, missing)
           /\ clock' = clock + Cardinality(missing)
    /\ rec_pc' = "end"
    /\ runs' = runs + 1
    /\ UNCHANGED <<notRec, rec_kwargs>>

MaxRuns == 2   \* record_analogs is run at most MaxRuns times with the same parameters

\* record_analogs called again with the same kwargs
RunAgain ==
    /\ rec_pc = "end"
    /\ runs < MaxRuns
    /\ rec_pc' = "params"
    /\ computed' = {}
    /\ UNCHANGED <<notRec, files, clock, rec_kwargs, runs>>

RecNext == RecordParams \/ RecordCriterion \/ RecordAnalogues \/ RunAgain

RecStart(store, kwargs) ==
    /\ files = store
    /\ clock = 1
    /\ rec_kwargs = kwargs
    /\ computed = {}
    /\ runs = 0

\* a store holding any of the artifacts of an earlier, possibly interrupted, run
RecInit ==
    /\ \E present \in SUBSET FileNames, save_crit \in BOOLEAN, columns \in {1, 2} :
          RecStart([f \in FileNames |-> IF f \in present
                                        THEN [exists |-> TRUE, date |-> 0] ELSE NoFile],
                   [save_crit |-> save_crit, columns |-> columns])
    /\ rec_pc = "params"

RecIdle ==
    /\ RecStart([f \in FileNames |-> NoFile], [save_crit |-> FALSE, columns |-> 1])
    /\ rec_pc = "idle"

\* =========================================================================
\* scripts/Forecasts/make_forecast_RMSE.py : the sweep over the worker pool
\* =========================================================================
PoolSize == 8   \* Pool(8)
MaxTasks == 3   \* (quantity, pattern length, pattern end date) combinations

Tasks == 1 .. MaxTasks
Running == {t \in Tasks : task[t] = "running"}
Pending == {t \in Tasks : task[t] = "pending"}

\* a worker of the pool takes the next combination of the generator (line 46)
WorkerTake ==
    /\ parent_pc = "iterating"
    /\ Pending # {}
    /\ Cardinality(Running) < PoolSize
    /\ task' = [task EXCEPT ![MinOf(Pending)] = "running"]
    /\ UNCHANGED <<notPool, will_raise, results, printed, parent_pc>>

\* record_analogs returns 0, its artifacts written, or raises; the worker sends the
\* outcome to the parent (recording_analogs.py lines 8-120)
WorkerFinish(t) ==
    /\ parent_pc = "iterating"
    /\ task[t] = "running"
    /\ task' = [task EXCEPT ![t] = IF will_raise[t] THEN "raised" ELSE "done"]
    /\ results' = Append(results, t)
    /\ UNCHANGED <<notPool, will_raise, printed, parent_pc>>

\* lines 46-47: the parent receives the next result of imap_unordered; the
\* exception of a run is raised again there, outside any try, and leaving the
\* with block terminates the pool
ParentNext ==
    /\ parent_pc = "iterating"
    /\ results # << >>
    /\ LET t == Head(results)
       IN  IF task[t] = "raised"
           THEN /\ parent_pc' = "aborted"
                /\ task' = [u \in Tasks |-> IF task[u] = "running" THEN "killed" ELSE task[u]]
                /\ results' = << >>
                /\ UNCHANGED printed
           ELSE /\ printed' = printed \cup {t}
                /\ results' = Tail(results)
                /\ UNCHANGED <<task, parent_pc>>
    /\ UNCHANGED <<notPool, will_raise>>

\* the end of the for loop and of the with block
ParentEnd ==
    /\ parent_pc = "iterating"
    /\ printed = Tasks
    /\ parent_pc' = "finished"
    /\ UNCHANGED <<notPool, task, will_raise, results, printed>>

PoolNext == WorkerTake \/ (\E t \in Tasks : WorkerFinish(t)) \/ ParentNext \/ ParentEnd

PoolStart(raising) ==
    /\ task = [t \in Tasks |-> "pending"]
    /\ will_raise = [t \in Tasks |-> t \in raising]
    /\ results = << >>
    /\ printed = {}

PoolInit ==
    /\ \E raising \in SUBSET Tasks : PoolStart(raising)
    /\ parent_pc = "iterating"

PoolIdle ==
    /\ PoolStart({})
    /\ parent_pc = "idle"

\* ------------------------------------------------- get_length called alone
MaxDuration == 9  \* counts and durations given to get_length range over 0..MaxDuration

\* get_length(df, count=n) or get_length(df, time_length=d), lines 146-212
GetLengthOf(arg) ==
    get_length(None, None, None,
               IF arg.k = "int" THEN arg ELSE None,
               IF arg.k = "td" THEN arg ELSE None, FALSE).val

GetLength ==
    /\ len_pc = "call"
    /\ len_out' = GetLengthOf(len_arg)
    /\ len_pc' = "returned"
    /\ UNCHANGED <<notLen, len_arg, len_back>>

\* the duration get_length returned, given back to it as time_length
GetLengthBack ==
    /\ len_pc = "returned"
    /\ len_back' = GetLengthOf(len_out.time_length)
    /\ len_pc' = "back"
    /\ UNCHANGED <<notLen, len_arg, len_out>>

LenNext == GetLength \/ GetLengthBack

LengthInputs == {IntV(n) : n \in 0 .. MaxDuration} \cup {Td(d) : d \in 0 .. MaxDuration}

LenStart(arg) ==
    /\ len_arg = arg
    /\ len_out = NoLength
    /\ len_back = NoLength

LenInit ==
    /\ \E arg \in LengthInputs : LenStart(arg)
    /\ len_pc = "call"

LenIdle ==
    /\ LenStart(None)
    /\ len_pc = "idle"

\* any regular series of at least two rows, of resolution 1..Step
SeriesInit ==
    /\ \E r \in 1 .. Step, n \in 2 .. MaxRows : SeriesStart(r, n, NoKw)
    /\ split_pc = "idle"

\* =========================================================================
\* splitting.py : get_length called with any keywords
\* =========================================================================
\* a float, held in tenths
Fl(p) == [k |-> "float", v |-> p]

\* lines 146-212: the call get_length(df, **kwargs)
GetLengthCall ==
    /\ res_pc = "call"
    /\ res_out' = get_length(res_kwargs.date_start, res_kwargs.date_end,
                             res_kwargs.portion, res_kwargs.count,
                             res_kwargs.time_length, res_kwargs.error)
    /\ res_pc' = IF res_out'.err = "" THEN "returned" ELSE "raised"
    /\ UNCHANGED <<notRes, res_kwargs>>

ResNext == GetLengthCall

NoResKw == [date_start |-> None, date_end |-> None, portion |-> None, count |-> None,
            time_length |-> None, error |-> FALSE]

ResStart(kwargs) ==
    /\ res_kwargs = kwargs
    /\ res_out = [err |-> "", val |-> NoLength]

\* dates on a row and between two rows, and a value that is no date
ResDates == {None, Other, Dt(0), Dt(Step + 1)}

ResInit ==
    /\ \E ds \in ResDates, de \in ResDates, c \in {None, IntV(1)}, d \in {None, Td(Step + 1)},
          p \in {None, Fl(5)}, e \in BOOLEAN :
          ResStart([date_start |-> ds, date_end |-> de, portion |-> p, count |-> c,
                    time_length |-> d, error |-> e])
    /\ res_pc = "call"

ResIdle ==
    /\ ResStart(NoResKw)
    /\ res_pc = "idle"

\* =========================================================================
\* preprocessing/spectra.py and criteria/spectral_slope.py : SpectralSlope.compute
\* =========================================================================
\* A signal is held by its length and by the number of its samples that are not
\* NaN; a spectrum by its length and by whether its bins are NaN (psd returns
\* either a spectrum without NaN or arrays of NaN only).
Signal(n, valid) == [n |-> n, valid |-> valid]
Spectrum(len, nan) == [len |-> len, nan |-> nan]

\* the value of a fit on finite data
Fit == [k |-> "fit", num |-> 0, den |-> 1]

\* spectra.py lines 21-50
psd(signal) ==
    IF signal.n - signal.valid > signal.n - 2
    THEN Spectrum(signal.n \div 2, TRUE)
    ELSE Spectrum((signal.n \div 2) + 1, FALSE)

\* spectra.py lines 86-87: spectra += psd(...)[1], an in-place sum that takes an
\* operand of the same length or of length 1
RECURSIVE Accumulate(_, _)
Accumulate(out, signals) ==
    IF signals = << >> \/ out.err # "" THEN out
    ELSE LET other == psd(Head(signals))
         IN  IF other.len = out.val.len \/ other.len = 1
             THEN Accumulate([err |-> "",
                              val |-> Spectrum(out.val.len, out.val.nan \/ other.nan)],
                             Tail(signals))
             ELSE [err |-> "ValueError", val |-> out.val]

\* spectra.py lines 71-89
psd_vect(signal_vect) ==
    Accumulate([err |-> "", val |-> psd(Head(signal_vect))], Tail(signal_vect))

\* np.count_nonzero(np.isnan(spec[1:]))
NanBinsAboveZero(spec) == IF spec.nan /\ spec.len > 1 THEN spec.len - 1 ELSE 0

\* spectra.py lines 52-69 on np.log(freq[1:]), np.log(spec[1:]): NaN for NaN bins
linear_fit(spec) == IF spec.nan \/ spec.len < 2 THEN NaN ELSE Fit

\* slope - ref
Minus(slope, ref) == IF slope = NaN \/ ref = NaN THEN NaN ELSE Fit

\* spectral_slope.py lines 25-64: y the signal (df absent) or the signals of the
\* columns of df over the window of y
SpectralSlope_compute(signals, with_df, ref) ==
    IF ~with_df
    THEN LET spec == psd(Head(signals))
         IN  IF NanBinsAboveZero(spec) < 2 \/ spec.len < 3
             THEN Returned(NaN)
             ELSE Returned(Minus(linear_fit(spec), ref))
    ELSE LET out == psd_vect(signals)
         IN  IF out.err # "" THEN Raised(out.err)
             ELSE IF NanBinsAboveZero(out.val) > 2 \/ out.val.len < 3
                  THEN Returned(NaN)
                  ELSE Returned(Minus(linear_fit(out.val), ref))

\* =========================================================================
\* criteria : moving_application of MSE, MdSE, ProdMSE and SpectralSlope
\* =========================================================================
\* a cell of a DataFrame: a number, or NaN
Valid(v) == [ok |-> TRUE, v |-> v]
Missing == [ok |-> FALSE, v |-> 0]

\* old_mse.py line 113: int(nanprop * len(df_ref.index)), nanprop held in tenths
MinPeriods(nanprop, length) == TruncDiv(nanprop * length, 10)

\* the window of a rolling of the given length that ends at row i
Window(col, i, length) == SubSeq(col, MaxOf({1, i - length + 1}), i)

\* the observations of a window that are not NaN
ValidCount(w) == Cardinality({j \in DOMAIN w : w[j].ok})

CellValues(w) == [j \in DOMAIN w |-> w[j].v]

\* the pairs (y[j], y_ref[j]) whose squared difference is not NaN
RECURSIVE ValidPairs(_, _)
ValidPairs(w, ref) ==
    IF w = << >> THEN << >>
    ELSE (IF Head(w).ok /\ Head(ref).ok THEN <<<<Head(w).v, Head(ref).v>>>> ELSE << >>)
         \o ValidPairs(Tail(w), Tail(ref))

\* self.compute of the criterion on two arrays of numbers
ComputeOf(criterion, a, ref) ==
    IF criterion = "mdse" THEN MdSE_compute(a, Array(ref)) ELSE MSE_compute(a, Array(ref))

\* self.compute(window, y_ref=df_ref[col].values): the length test is made on the
\* arrays as given, the nan-aware mean or median on the squared differences
WindowCompute(criterion, w, ref) ==
    IF Len(w) # Len(ref) THEN ComputeOf(criterion, CellValues(w), CellValues(ref))
    ELSE LET pairs == ValidPairs(w, ref)
         IN  ComputeOf(criterion, [j \in DOMAIN pairs |-> pairs[j][1]],
                       [j \in DOMAIN pairs |-> pairs[j][2]])

\* df[col].rolling(length, min_periods=min_periods).apply(self.compute, raw=True,
\* kwargs={'y_ref': ...}) (old_mse.py lines 115-116): NaN where the window holds
\* fewer than min_periods observations, the function of the window elsewhere
RollingCompute(criterion, col, ref, min_periods) ==
    [i \in DOMAIN col |->
        LET w == Window(col, i, Len(ref))
        IN  IF ValidCount(w) < min_periods THEN Returned(NaN)
            ELSE WindowCompute(criterion, w, ref)]

\* the signals of the columns of df over the window that ends at row i
WindowSignals(df, i, length) ==
    [c \in DOMAIN df |-> Signal(Len(Window(df[c], i, length)),
                                ValidCount(Window(df[c], i, length)))]

\* spectral_slope.py line 137: the slope of the reference
SlopeRef(ref) ==
    SpectralSlope_compute([c \in DOMAIN ref |-> Signal(Len(ref[c]), ValidCount(ref[c]))],
                          TRUE, Num(0, 1))

\* spectral_slope.py lines 143-145: df[columns[0]].rolling(length).apply(
\* self.compute, kwargs={'df': df[columns], ...})
RollingSlope(df, length, slope_ref) ==
    [i \in DOMAIN df[1] |->
        IF ValidCount(Window(df[1], i, length)) < length THEN Returned(NaN)
        ELSE SpectralSlope_compute(WindowSignals(df, i, length), TRUE, slope_ref)]

\* the first exception of a rolling, "" if none
FirstError(scores) ==
    IF \E i \in DOMAIN scores : scores[i].err # ""
    THEN scores[MinOf({i \in DOMAIN scores : scores[i].err # ""})].err
    ELSE ""

ScoreValues(scores) == [i \in DOMAIN scores |-> scores[i].val]

\* the product of two scores, NaN skipped (DataFrame.prod, skipna=True)
Times(a, b) ==
    IF a = NaN THEN b ELSE IF b = NaN THEN a ELSE Num(a.num * b.num, a.den * b.den)

\* prod_mse.py line 35: df_out.prod(axis='columns'), 1 for a row of NaN only
RECURSIVE RowProd(_)
RowProd(row) ==
    IF row = << >> THEN Num(1, 1)
    ELSE IF Head(row) = NaN THEN RowProd(Tail(row))
    ELSE Times(Head(row), RowProd(Tail(row)))

Column(name, scores) == [name |-> name, scores |-> scores]

\* the columns of df and of df_ref
ColumnNames == <<"V1", "V2">>

\* old_mse.py lines 87-113 and spectral_slope.py lines 103-147
MovingApplicationCall ==
    /\ mov_pc = "call"
    /\ IF mov_kwargs.criterion = "spectral_slope"
       THEN LET slope_ref == SlopeRef(mov_ref)
                out == RollingSlope(mov_df, mov_kwargs.length, slope_ref.val)
                err == IF slope_ref.err # "" THEN slope_ref.err ELSE FirstError(out)
            IN  IF err # ""
                THEN /\ mov_pc' = "raised"
                     /\ mov_err' = err
                     /\ UNCHANGED mov_out
                ELSE /\ mov_pc' = "returned"
                     /\ mov_out' = <<Column("slope", ScoreValues(out))>>
                     /\ UNCHANGED mov_err
       ELSE /\ mov_pc' = "for"
            /\ UNCHANGED <<mov_out, mov_err>>
    /\ UNCHANGED <<notMov, mov_kwargs, mov_df, mov_ref>>

\* old_mse.py lines 114-116: one iteration of the loop over the columns
MovingColumn ==
    /\ mov_pc = "for"
    /\ Len(mov_out) < Len(mov_df)
    /\ LET col == Len(mov_out) + 1
           out == RollingCompute(mov_kwargs.criterion, mov_df[col], mov_ref[col],
                                 MinPeriods(mov_kwargs.nanprop, mov_kwargs.length))
       IN  IF FirstError(out) # ""
           THEN /\ mov_pc' = "raised"
                /\ mov_err' = FirstError(out)
                /\ UNCHANGED mov_out
           ELSE /\ mov_out' = Append(mov_out, Column(ColumnNames[col], ScoreValues(out)))
                /\ UNCHANGED <<mov_pc, mov_err>>
    /\ UNCHANGED <<notMov, mov_kwargs, mov_df, mov_ref>>

\* old_mse.py line 117, and prod_mse.py lines 33-37 around it
MovingReturn ==
    /\ mov_pc = "for"
    /\ Len(mov_out) = Len(mov_df)
    /\ mov_out' = IF mov_kwargs.criterion = "prod_mse"
                  THEN <<Column("prod_MSE",
                                [i \in DOMAIN mov_df[1] |->
                                    RowProd([c \in DOMAIN mov_out |->
                                                mov_out[c].scores[i]])])>>
                  ELSE mov_out
    /\ mov_pc' = "returned"
    /\ UNCHANGED <<notMov, mov_kwargs, mov_df, mov_ref, mov_err>>

MovNext == MovingApplicationCall \/ MovingColumn \/ MovingReturn

MovRows == 4   \* rows of the candidate frame, and the longest reference

Criteria == {"mse", "mdse", "prod_mse", "spectral_slope"}

MovStart(kwargs, df, ref) ==
    /\ mov_kwargs = kwargs
    /\ mov_df = df
    /\ mov_ref = ref
    /\ mov_out = << >>
    /\ mov_err = ""

Cells == {Missing} \cup {Valid(v) : v \in 0 .. MaxVal}

ConstantColumn(cell, n) == [i \in 1 .. n |-> cell]

\* frames of two columns: any first column, the second one a copy of the first,
\* a column of ones or a column of NaN; references without NaN; the default
\* minimum-valid-fraction (0.8), a lower one and 1.0
MovInit ==
    /\ \E criterion \in Criteria, nanprop \in {5, 8, 10}, length \in 1 .. MovRows,
          first \in [1 .. MovRows -> Cells], second \in {"copy", "ones", "nan"},
          r \in 0 .. MaxVal :
          MovStart([criterion |-> criterion, nanprop |-> nanprop, length |-> length],
                   <<first,
                     CASE second = "copy" -> first
                       [] second = "ones" -> ConstantColumn(Valid(1), MovRows)
                       [] second = "nan" -> ConstantColumn(Missing, MovRows)>>,
                   <<ConstantColumn(Valid(r), length), ConstantColumn(Valid(r), length)>>)
    /\ mov_pc = "call"

MovIdle ==
    /\ MovStart([criterion |-> "mse", nanprop |-> 8, length |-> 1],
                <<ConstantColumn(Valid(0), 1), ConstantColumn(Valid(0), 1)>>,
                <<ConstantColumn(Valid(0), 1), ConstantColumn(Valid(0), 1)>>)
    /\ mov_pc = "idle"

\* ------------------------------------------- SpectralSlope.compute called alone
\* spectral_slope.py lines 25-64
SpectralSlopeCompute ==
    /\ sp_pc = "call"
    /\ sp_out' = SpectralSlope_compute(sp_signals, sp_with_df, Num(0, 1))
    /\ sp_pc' = IF sp_out'.err = "" THEN "returned" ELSE "raised"
    /\ UNCHANGED <<notSp, sp_signals, sp_with_df>>

SpNext == SpectralSlopeCompute

MaxSamples == 7   \* samples of a signal

SpStart(signals, with_df) ==
    /\ sp_signals = signals
    /\ sp_with_df = with_df
    /\ sp_out = Returned(NaN)

\* a single signal y, or the columns (one or two) of the window of y in df
SpInit ==
    /\ \E n \in 1 .. MaxSamples, with_df \in BOOLEAN, columns \in 1 .. 2 :
          \E valid \in [1 .. columns -> 0 .. n] :
             /\ ~with_df => columns = 1
             /\ SpStart([c \in 1 .. columns |-> Signal(n, valid[c])], with_df)
    /\ sp_pc = "call"

SpIdle ==
    /\ SpStart(<<Signal(1, 1)>>, FALSE)
    /\ sp_pc = "idle"

\* =========================================================================
\* standardizing/__init__.py, mean_std.py : the standards shared by the Pipelines
\* =========================================================================
\* A frame is the sequence of the values of its column.  The frames are arithmetic
\* progressions of three rows, whose mean and standard deviation are integers.
Progression(a, d) == <<a, a + d, a + 2 * d>>

\* df.describe().loc['mean']
Mean(frame) == Sum(frame) \div Len(frame)

\* df.describe().loc['std']: the sample standard deviation (ddof = 1)
Std(frame) ==
    LET dev == [i \in DOMAIN frame |-> (frame[i] - Mean(frame)) * (frame[i] - Mean(frame))]
        variance == Sum(dev) \div (Len(frame) - 1)
    IN  CHOOSE s \in 0 .. variance : s * s = variance

\* the attributes of a MeanStd instance; mean_std.py lines 18-27 for the instance
\* load() creates
Unset == [mean |-> 0, std |-> 0, set |-> FALSE]
Attrs(mean, std) == [mean |-> mean, std |-> std, set |-> TRUE]

\* mean_std.py lines 29-65, called with df_physical
set_attributes(df_physical) == Attrs(Mean(df_physical), Std(df_physical))

\* mean_std.py lines 129-162
standardize(attrs, df_physical) ==
    [i \in DOMAIN df_physical |-> TruncDiv(df_physical[i] - attrs.mean, attrs.std)]

\* mean_std.py lines 164-196
unstandardize(attrs, df_standard) ==
    [i \in DOMAIN df_standard |-> df_standard[i] * attrs.std + attrs.mean]

\* pipeline.py lines 95-107, for the Pipeline p: self.standard is the instance
\* STANDARDS[self.standard_name], the one every Pipeline of the process gets
PipelineStandardize(p) ==
    /\ ~pipelines[p].standardized
    /\ LET original_data == pipelines[p].data
           attrs == set_attributes(original_data)
       IN  /\ STANDARDS' = [STANDARDS EXCEPT ![pipelines[p].standard_name] = attrs]
           /\ pipelines' = [pipelines EXCEPT ![p].original_data = original_data,
                                             ![p].data = standardize(attrs, original_data),
                                             ![p].standardized = TRUE]
    /\ UNCHANGED <<notStd>>

\* self.standard.unstandardize(self.data) for the Pipeline p
PipelineUnstandardize(p) ==
    /\ pipelines[p].standardized
    /\ pipelines[p].restored = << >>
    /\ pipelines' = [pipelines EXCEPT ![p].restored =
                        unstandardize(STANDARDS[pipelines[p].standard_name],
                                      pipelines[p].data)]
    /\ UNCHANGED <<notStd, STANDARDS>>

MaxPipelines == 2   \* Pipeline objects of the process

Pipelines == 1 .. MaxPipelines

StdNext == \E p \in Pipelines : PipelineStandardize(p) \/ PipelineUnstandardize(p)

MaxFirst == 2   \* the first value of a frame ranges over 0..MaxFirst
MaxGap == 2     \* the gap between two rows of a frame ranges over 1..MaxGap

NewPipeline(df) ==
    [standard_name |-> "mean_std", data |-> df, original_data |-> << >>,
     standardized |-> FALSE, restored |-> << >>]

StdStart(frames_given) ==
    /\ STANDARDS = [name \in {"mean_std"} |-> Unset]
    /\ pipelines = [p \in Pipelines |-> NewPipeline(frames_given[p])]

StdInit ==
    \E a \in [Pipelines -> 0 .. MaxFirst], d \in [Pipelines -> 1 .. MaxGap] :
        StdStart([p \in Pipelines |-> Progression(a[p], d[p])])

\* no Pipeline of the component runs: none is left to standardize
StdIdle ==
    /\ STANDARDS = [name \in {"mean_std"} |-> Unset]
    /\ pipelines = [p \in Pipelines |->
                       [NewPipeline(Progression(0, 1)) EXCEPT !.standardized = TRUE,
                                                              !.restored = <<0>>]]

\* =========================================================================
\* pipeline.py : a Pipeline run on one series, from the split to the extraction
\* =========================================================================
\* the rows of a training segment that a rolling window of the given length, ended
\* at row i, covers
SegmentWindow(segment, i, length) == {j \in segment : i - length < j /\ j <= i}

\* old_mse.py lines 44-46 and 115-116, on a series without NaN: MSE.compute returns
\* NaN for a window shorter than the pattern, so that the rows of a training segment
\* with a score are the ends of the full windows
ScoredRows(segment) ==
    {i \in segment :
        Cardinality(SegmentWindow(segment, i, sizes.pattern_size)) = sizes.pattern_size}

\* pipeline.py lines 122-124: the criterion of every frame of data_train, concatenated
CriterionRows == ScoredRows(data.train_past) \cup ScoredRows(data.train_future)

\* the lists of distinct timestamps listing_analogs can return from the scored rows
ScoredLists ==
    {l \in UNION {[1 .. n -> {Idx(i) : i \in CriterionRows}] : n \in 1 .. MaxAnalogs} :
        \A i, j \in DOMAIN l : i # j => l[i] # l[j]}

\* pipeline.py lines 110-126 and 146-175: after set_splitting has stored the two
\* sizes in kwargs_analogs, set_criterion and set_analogs_index select the analogs
\* and set_ensemble_analogs calls extract_analogs(self.data, self.analogs_index,
\* **self.kwargs_analogs)
HandOverAnalogs ==
    /\ split_pc = "done"
    /\ ext_pc = "idle"
    /\ \E index \in ScoredLists, nb \in 1 .. MaxAnalogs :
          /\ analogs_index' = index
          /\ size_analog' = sizes.pattern_size
          /\ ext_kwargs' = [size_forecast |-> IntV(sizes.test_size),
                            nb_extracted |-> IntV(nb), index_position |-> None]
    /\ ext_pc' = "call"
    /\ UNCHANGED <<notExt, df_columns, frames, df_out, ext_err>>

RunRows == 8   \* rows of the series of the Pipeline

\* pattern_end on a row, and the two counts
RunInit ==
    /\ \E pe \in {Dt(i * Step) : i \in 0 .. RunRows - 1},
          pc \in 1 .. MaxCount, tc \in 1 .. MaxCount :
          SplitStart(RunRows, [NoKw EXCEPT !.pattern_end = pe, !.pattern_count = IntV(pc),
                                           !.test_count = IntV(tc)])
    /\ split_pc = "call"

\* what the variables of the added components hold while a core component runs
LateIdle == ResIdle /\ MovIdle /\ SpIdle /\ StdIdle

vars == <<selVars, splitVars, lenVars, extVars, pipeVars, critVars, recVars, poolVars,
          lateVars>>


Init == SelInit(TimedeltaWindows \cup NoWindows \cup BrokenWindows) /\ SplitIdle /\ LenIdle /\ ExtIdle /\ PipeIdle /\ CritIdle /\ RecIdle /\ PoolIdle /\ LateIdle
Next == SelNext
Spec == Init /\ [][Next]_vars


\* listing_analogs without a blind window
InitNoWindow == SelInit(NoWindows) /\ SplitIdle /\ LenIdle /\ ExtIdle /\ PipeIdle /\ CritIdle /\ RecIdle /\ PoolIdle /\ LateIdle
NextNoWindow == ListingAnalogsCall
SpecNoWindow == InitNoWindow /\ [][NextNoWindow]_vars

\* split_data on a short series, over every combination of dates and counts
InitSplit == SelIdle /\ SplitInit /\ LenIdle /\ ExtIdle /\ PipeIdle /\ CritIdle /\ RecIdle /\ PoolIdle /\ LateIdle
NextSplit == SplitNext
SpecSplit == InitSplit /\ [][NextSplit]_vars

\* the scenario of a series of 100 rows, pattern and test of 10 rows, the pattern
\* ending on any row of the series
ScenarioInit ==
    /\ \E e \in 0 .. 99 :
          SplitStart(100, [NoKw EXCEPT !.pattern_end = Dt(e * Step),
                                       !.pattern_count = IntV(10),
                                       !.test_count = IntV(10)])
    /\ split_pc = "call"

InitScenario == SelIdle /\ ScenarioInit /\ LenIdle /\ ExtIdle /\ PipeIdle /\ CritIdle /\ RecIdle /\ PoolIdle /\ LateIdle
SpecScenario == InitScenario /\ [][NextSplit]_vars

\* get_length on a count or a duration, over every regular series
InitLength == SelIdle /\ SeriesInit /\ LenInit /\ ExtIdle /\ PipeIdle /\ CritIdle /\ RecIdle /\ PoolIdle /\ LateIdle
NextLength == LenNext
SpecLength == InitLength /\ [][NextLength]_vars

\* extract_analogs on a short series, for every list of analog timestamps
InitExtract == SelIdle /\ SplitIdle /\ LenIdle /\ ExtInit /\ PipeIdle /\ CritIdle /\ RecIdle /\ PoolIdle /\ LateIdle
NextExtract == ExtNext
SpecExtract == InitExtract /\ [][NextExtract]_vars

\* a Pipeline built from every combination of arguments, then its stage methods
\* invoked again
InitPipeline == SelIdle /\ SplitIdle /\ LenIdle /\ ExtIdle /\ PipeInit /\ CritIdle /\ RecIdle /\ PoolIdle /\ LateIdle
NextPipeline == PipeNext
SpecPipeline == InitPipeline /\ [][NextPipeline]_vars

\* a Pipeline built from every combination of arguments, then a stage method
\* invoked again or the series split anew
NextResplit == PipeNext \/ SetSplittingAnew
SpecResplit == InitPipeline /\ [][NextResplit]_vars

\* MSE.compute and MdSE.compute on every pair of short arrays
InitCompute == SelIdle /\ SplitIdle /\ LenIdle /\ ExtIdle /\ PipeIdle /\ CritInit /\ RecIdle /\ PoolIdle /\ LateIdle
NextCompute == CritNext
SpecCompute == InitCompute /\ [][NextCompute]_vars

\* the components record_analogs and the sweep do not use
CoreIdle == SelIdle /\ SplitIdle /\ LenIdle /\ ExtIdle /\ PipeIdle /\ CritIdle

\* record_analogs run and run again with the same parameters, on any store
InitRecord == CoreIdle /\ RecInit /\ PoolIdle /\ LateIdle
NextRecord == RecNext
SpecRecord == InitRecord /\ [][NextRecord]_vars

\* the sweep, with any set of combinations raising
InitSweep == CoreIdle /\ RecIdle /\ PoolInit /\ LateIdle
NextSweep == PoolNext
SpecSweep == InitSweep /\ [][NextSweep]_vars

\* get_length with every combination of keywords, over every regular series
InitResolve == SelIdle /\ SeriesInit /\ LenIdle /\ ExtIdle /\ PipeIdle /\ CritIdle /\ RecIdle /\ PoolIdle /\ ResInit /\ MovIdle /\ SpIdle /\ StdIdle
NextResolve == ResNext
SpecResolve == InitResolve /\ [][NextResolve]_vars

\* moving_application of every criterion on short frames
InitMoving == CoreIdle /\ RecIdle /\ PoolIdle /\ ResIdle /\ MovInit /\ SpIdle /\ StdIdle
NextMoving == MovNext
SpecMoving == InitMoving /\ [][NextMoving]_vars

\* SpectralSlope.compute on signals of every length and number of NaN
InitSlope == CoreIdle /\ RecIdle /\ PoolIdle /\ ResIdle /\ MovIdle /\ SpInit /\ StdIdle
NextSlope == SpNext
SpecSlope == InitSlope /\ [][NextSlope]_vars

\* a Pipeline run on one series: split_data, the selection of the analogs among the
\* scored rows of the training segments, extract_analogs
InitRun == SelIdle /\ RunInit /\ LenIdle /\ ExtIdle /\ PipeIdle /\ CritIdle /\ RecIdle /\ PoolIdle /\ LateIdle
NextRun == SplitNext \/ HandOverAnalogs \/ ExtNext
SpecRun == InitRun /\ [][NextRun]_vars

\* two Pipelines of one process standardizing their data with the same standard
InitStandards == CoreIdle /\ RecIdle /\ PoolIdle /\ ResIdle /\ MovIdle /\ SpIdle /\ StdInit
NextStandards == StdNext
SpecStandards == InitStandards /\ [][NextStandards]_vars

\* =========================================================================
\* Properties of listing_analogs
\* =========================================================================
Range(seq) == {seq[i] : i \in DOMAIN seq}

TimedeltaWindow ==
    blind_window_length[1].k = "td" /\ blind_window_length[2].k = "td"
Before == blind_window_length[1].v
After == blind_window_length[2].v

\* every list listing_analogs has returned
ReturnedLists ==
    IF name_column.list THEN {analogs_by_col[c] : c \in DOMAIN analogs_by_col}
    ELSE {list_analogs}

\* C1: under an exclusion window (before, after), any two entries t1, t2 at
\* different ranks of a returned list satisfy: t1 is not in [t2 - before, t2 + after].
SelectedOutsideWindows ==
    (sel_pc = "returned" /\ TimedeltaWindow) =>
        \A l \in ReturnedLists : \A i, j \in DOMAIN l :
            i # j => ~(l[j] - Before <= l[i] /\ l[i] <= l[j] + After)

\* the timestamps the picks of ranks 1 .. k-1 leave, each pick removing itself and
\* its window [pick - before, pick + after]
LeftByPicks(l, k) ==
    {t \in CritIndex : \A j \in 1 .. k - 1 : ~(l[j] - Before <= t /\ t <= l[j] + After)}

\* C2: under an exclusion window, the k-th timestamp returned is the timestamp of
\* minimum score among the timestamps the first k-1 picks have not removed.
KthPickIsMinOfRemaining ==
    (sel_pc = "returned" /\ TimedeltaWindow /\ ~name_column.list) =>
        \A k \in DOMAIN list_analogs :
            /\ list_analogs[k] \in LeftByPicks(list_analogs, k)
            /\ \A t \in LeftByPicks(list_analogs, k) :
                   Score(list_analogs[k], 1) <= Score(t, 1)

\* the list the greedy loop produces for column c alone, from the frame given
RECURSIVE GreedyAlone(_, _, _)
GreedyAlone(frame, c, picked) ==
    IF Len(picked) < NbAnalogs /\ Len(frame) > 0
    THEN LET t == IdxMin(frame, c)
         IN  GreedyAlone(Deplete(frame, t, Before, After), c, Append(picked, t))
    ELSE picked

\* C3: with several target columns, the list of each column is the list the greedy
\* selection produces for that column alone on the full criterion series.
ColumnsSelectedIndependently ==
    (sel_pc = "returned" /\ TimedeltaWindow /\ name_column.list) =>
        \A c \in DOMAIN analogs_by_col :
            analogs_by_col[c] = GreedyAlone(FullFrame, c, << >>)

\* C4: without an exclusion window the list returned holds exactly the nb_analogs
\* timestamps of smallest score in the chosen column, in ascending score order, ties
\* in the order of the series, and no timestamp has left the frame.
NoWindowReturnsSmallest ==
    (sel_pc = "returned" /\ blind_window_length[1] = None /\ ~name_column.list) =>
        LET c == ChosenColumn
            r == list_analogs
            Precedes(t, u) == \/ Score(t, c) < Score(u, c)
                              \/ Score(t, c) = Score(u, c) /\ t < u
        IN  /\ Len(r) = NbAnalogs
            /\ Range(r) \subseteq CritIndex
            /\ \A i, j \in DOMAIN r : i < j => Precedes(r[i], r[j])
            /\ \A i \in DOMAIN r : \A t \in CritIndex \ Range(r) : Precedes(r[i], t)
            /\ df_crit = FullFrame

\* C4 witness: two neighbouring timestamps of equal score, not the first of the
\* series, are returned in the order of the series and others are left out
NoWindowNeighboursReturned ==
    /\ sel_pc = "returned"
    /\ blind_window_length = <<None, None>>
    /\ name_column = [list |-> FALSE, cols |-> <<2>>]
    /\ list_analogs = <<2, 3>>
    /\ Score(2, 2) = Score(3, 2)

\* =========================================================================
\* Properties of split_indexes and split_data
\* =========================================================================
SplitIndexesReturned == split_pc \in {"indexed", "done"}

\* the rows a returned range [first label, last label] spans
Span(range) == Loc(range[1], range[2])

\* C5: whenever split_indexes returns, the pattern range spans exactly pattern_size
\* rows and the test range exactly test_size rows.
WindowsSpanTheirCounts ==
    SplitIndexesReturned =>
        /\ Cardinality(Span(ranges.pattern)) = sizes.pattern_size
        /\ Cardinality(Span(ranges.test)) = sizes.test_size

\* C6: after a successful split no row of the pattern window and no row of the test
\* window belongs to the past or to the future training segment.
WindowsDisjointFromTraining ==
    split_pc = "done" =>
        (data.pattern \cup data.test) \cap (data.train_past \cup data.train_future) = {}

\* C7 as stated: pattern ending at row 50 of 100, lengths 10: pattern is rows 41-50,
\* test is rows 51-60, training holds none of rows 41-70 and none of rows 91-100
\* (row r of the claim is position r - 1).
ScenarioTrainingExcludesGuardBand ==
    (split_pc = "done" /\ kw.pattern_end = Dt(Idx(49))) =>
        /\ data.pattern = 40 .. 49
        /\ data.test = 50 .. 59
        /\ (data.train_past \cup data.train_future) \cap (40 .. 69) = {}
        /\ (data.train_past \cup data.train_future) \cap (90 .. 99) = {}

\* C7 amended: pattern is rows 41-50, test is rows 51-60, the training segments are
\* rows 1-40 and rows 61-90: they hold none of rows 41-60 and none of rows 91-100.
ScenarioTrainingExcludesWindows ==
    (split_pc = "done" /\ kw.pattern_end = Dt(Idx(49))) =>
        /\ data.pattern = 40 .. 49
        /\ data.test = 50 .. 59
        /\ data.train_past = 0 .. 39
        /\ data.train_future = 60 .. 89
        /\ (data.train_past \cup data.train_future) \cap (40 .. 59) = {}
        /\ (data.train_past \cup data.train_future) \cap (90 .. 99) = {}

\* C7 witness: the split of the scenario has completed
ScenarioSplitDone ==
    /\ split_pc = "done"
    /\ kw.pattern_end = Dt(Idx(49))
    /\ sizes = [pattern_size |-> 10, test_size |-> 10, whole_count |-> 100]

\* split_indexes or split_data was entered (the counts were resolved)
CountsResolved == sizes.whole_count > 0

\* C8: once the counts are resolved, split_data raises only because the pattern or
\* the test window is empty, never because a training segment is missing or empty.
NoRaiseForMissingTraining ==
    (split_pc = "raised" /\ CountsResolved) =>
        (PatternIndexes = {} \/ TestIndexes = {})

CallerGaveBoth == kw.pattern_end.k # "none" /\ kw.test_start.k # "none"

\* C9: when the caller did not give both pattern_end and test_start, the first row
\* of the test window is the row following the last row of the pattern window.
TestFollowsPattern ==
    (SplitIndexesReturned /\ ~CallerGaveBoth) =>
        MinOf(Span(ranges.test)) = MaxOf(Span(ranges.pattern)) + 1

InIndex(t) == \E i \in Rows : Idx(i) = t
RowsBefore(t) == {i \in Rows : Idx(i) < t}

\* an explicit date that is no label of the index and has a row before it
MissesIndex(date) == date.k = "dt" /\ ~InIndex(date.v) /\ RowsBefore(date.v) # {}

\* C10: a window whose explicit start date is no label of the index starts at the
\* nearest row preceding that date.
MissingStartFallsBack ==
    SplitIndexesReturned =>
        /\ MissesIndex(kw.test_start) =>
               MinOf(Span(ranges.test)) = MaxOf(RowsBefore(kw.test_start.v))
        /\ MissesIndex(kw.pattern_start) =>
               MinOf(Span(ranges.pattern)) = MaxOf(RowsBefore(kw.pattern_start.v))

\* =========================================================================
\* Properties of get_length
\* =========================================================================
\* floor(d / r) for a positive r
Floor(d, r) == d \div r

\* C11: on a series of resolution r, get_length on a duration d returns the count
\* floor(d / r), get_length on a count n returns the duration n * r, and get_length
\* on the duration it returned for the count n returns the count n again.
LengthRoundTrip ==
    /\ (len_pc \in {"returned", "back"} /\ len_arg.k = "td")
          => len_out.count = IntV(Floor(len_arg.v, resolution))
    /\ (len_pc \in {"returned", "back"} /\ len_arg.k = "int")
          => len_out.time_length = Td(len_arg.v * resolution)
    /\ (len_pc = "back" /\ len_arg.k = "int")
          => len_back.count = len_arg

\* a count of at least two rows has made the round trip on a series whose
\* resolution is not the time unit
CountRoundTripDone ==
    /\ len_pc = "back"
    /\ len_arg.k = "int"
    /\ len_arg.v >= 2
    /\ resolution > 1
    /\ len_out.time_length = Td(len_arg.v * resolution)
    /\ len_back.count = len_arg
\* =========================================================================
\* Properties of extract_analogs
\* =========================================================================
ExtractReturned == ext_pc = "returned"

\* C12: whatever the row position of an analog timestamp present in the series, the
\* window extract_analogs stores for it has exactly size_analog + size_forecast rows.
WindowsHaveFullLength ==
    ExtractReturned =>
        \A k \in DOMAIN df_out : Len(df_out[k].rows) = size_analog + SizeForecast

DefaultAnchor == ext_kwargs.index_position = None

\* the rows from position a to position b, in order
RowsFromTo(a, b) == [j \in 1 .. b - a + 1 |-> a + j - 1]

\* C13: with the default anchor, the window of an analog timestamp is made of the
\* size_analog rows that end at the timestamp, followed by the next size_forecast
\* rows, and is relabelled 0 .. size_analog + size_forecast - 1.
WindowEndsPatternAtAnalog ==
    (ExtractReturned /\ DefaultAnchor) =>
        \A k \in DOMAIN df_out :
            LET t == GetLoc(df_out[k].date)
            IN  /\ df_out[k].rows = RowsFromTo(t - size_analog + 1, t + SizeForecast)
                /\ df_out[k].index = ARange(size_analog + SizeForecast)
\* =========================================================================
\* Properties of Pipeline
\* =========================================================================
\* C14: whatever stages have run, the DataFrame object passed as data has the
\* columns and the values it had before the Pipeline was built.
CallerDataUntouched ==
    args.data = "caller" => objects["caller"] = CallerObjects["caller"]

\* the stages __init__ has to run, in order
EnabledStages == SelectSeq(Stages, StageEnabled)

\* C16: a Pipeline given neither data nor filename, or both, fails with a
\* ValueError before any stage is entered; given exactly one of them, __init__
\* goes on to the enabled stages (an exception can come from a stage only, and a
\* finished construction has entered every enabled stage, in order).
ExactlyOneOfDataAndFilename ==
    /\ (pipe_pc \notin {"new", "idle"} /\ ~Loadable(args.filename, args.data)
          /\ args.data \in {"none", "caller"})
          => (pipe_pc = "raised" /\ pipe_err = "ValueError" /\ pipe_log = << >>)
    /\ (pipe_pc = "raised" /\ Loadable(args.filename, args.data)) => pipe_log # << >>
    /\ (pipe_pc = "constructed" /\ calls = 0 /\ Loadable(args.filename, args.data))
          => pipe_log = EnabledStages

\* a Pipeline given both a DataFrame and a filename, with stages enabled, has raised
BothGivenRaised ==
    /\ pipe_pc = "raised"
    /\ args.filename = "file"
    /\ args.data = "caller"
    /\ args.split /\ args.calcul_crit
    /\ pipe_err = "ValueError"

\* the attributes of the Pipeline, the DataFrame self.data among them
Attributes == [self EXCEPT !.data = IF @ = "none" THEN NoFrame ELSE objects[@]]

\* a stage method invoked after the construction, having been invoked before
InvokedAgain(st) ==
    /\ pipe_pc = "constructed"
    /\ pipe_log' = Append(pipe_log, st)
    /\ \E i \in DOMAIN pipe_log : pipe_log[i] = st

\* C17: a stage method invoked a second time with no new option leaves every
\* attribute of the Pipeline as the first invocation left it.
StagesIdempotent ==
    [][\A st \in StageNames : InvokedAgain(st) => Attributes' = Attributes]_vars

\* the options of a sweep: both given, one of them at least a list, and every stage
\* enabled and configured
Sweep ==
    /\ Loadable(args.filename, args.data)
    /\ args.split /\ args.calcul_crit /\ args.list_analog /\ args.extract_analog
    /\ args.standardizing => args.kwargs_standard.standard # ""
    /\ args.kwargs_criterion.criterion # ""
    /\ args.kwargs_analogs.blind_window_length.k # "absent"
    /\ args.kwargs_analogs.nb_extracted.k # "absent"
    /\ \/ args.kwargs_analogs.blind_window_length.k = "list"
       \/ args.kwargs_analogs.nb_extracted.k = "list"

Tags(option) == IF option.k = "list" THEN option.v ELSE <<0>>

\* C18: with blind_window_length a list of k configurations and/or nb_extracted a
\* list of m counts, the construction completes with one analog list per
\* configuration and one ensemble per (configuration, count), each tagged with the
\* varied values, also when only one of the two is a list.
SweepFansOut ==
    (Sweep /\ pipe_pc \in {"constructed", "raised"} /\ calls = 0) =>
        LET bwl == args.kwargs_analogs.blind_window_length
            nb == args.kwargs_analogs.nb_extracted
            pairs == Pairs(Tags(bwl), Tags(nb))
        IN  /\ pipe_pc = "constructed"
            /\ Len(self.analogs_index.items) = Len(bwl.v)
            /\ \A i \in DOMAIN bwl.v :
                  self.analogs_index.items[i].blind_window_length = bwl.v[i]
            /\ Len(self.ensemble_analogs.items) = Len(pairs)
            /\ \A i \in DOMAIN pairs :
                  /\ self.ensemble_analogs.items[i].blind_window_length = pairs[i][1]
                  /\ self.ensemble_analogs.items[i].nb_extracted = pairs[i][2]
\* =========================================================================
\* Properties of the criteria
\* =========================================================================
LengthsDiffer == y_ref.k = "array" /\ Len(y_ref.v) # Len(y_arr)

\* C15: with a reference whose length differs from the candidate's, MSE.compute
\* returns NaN without raising and MdSE.compute raises; with equal lengths neither
\* raises.
MismatchNanOrRaise ==
    /\ (mse_pc # "call" /\ LengthsDiffer) => (mse_pc = "returned" /\ mse_out.val = NaN)
    /\ (mdse_pc # "call" /\ LengthsDiffer)
          => (mdse_pc = "raised" /\ mdse_out.err = "ValueError")
    /\ (mse_pc # "call" /\ ~LengthsDiffer) => mse_pc = "returned"
    /\ (mdse_pc # "call" /\ ~LengthsDiffer) => mdse_pc = "returned"

\* both methods have been called with a reference shorter than the candidate
BothCalledOnMismatch ==
    /\ LengthsDiffer
    /\ Len(y_arr) = 2 /\ Len(y_ref.v) = 1
    /\ mse_pc = "returned"
    /\ mdse_pc = "raised"
\* =========================================================================
\* Properties of the orchestration
\* =========================================================================
SweepOver == parent_pc \in {"finished", "aborted"}

\* C19: in the sweep over the worker pool, a combination whose record_analogs run
\* raises is skipped, and every other combination is run to completion, its
\* artifacts written.
FailingCombinationSkipped ==
    SweepOver =>
        /\ parent_pc = "finished"
        /\ \A t \in Tasks : ~will_raise[t] => task[t] = "done"

\* C20 as claimed: a run of record_analogs leaves every file that exists, the
\* parameter record included, as it is.
ExistingFilesUntouched ==
    [][\A f \in FileNames : files[f].exists => files'[f] = files[f]]_vars

\* C20: a run of record_analogs neither recomputes nor rewrites the criterion file
\* and the analogues files that exist already; the parameter record is written
\* again by every run.
ExistingArtifactsReused ==
    [][/\ \A f \in FileNames \ {"params"} :
             files[f].exists => (files'[f] = files[f] /\ (f \in computed' => f \in computed))
       /\ rec_pc = "params" => (rec_pc' = "criterion" => files'["params"].date = clock)]_vars

\* a second run has ended: it rewrote the parameter record and left the analogues
\* file of the first run alone
SecondRunReusedAnalogues ==
    /\ rec_pc = "end"
    /\ runs = 2
    /\ rec_kwargs.columns = 1
    /\ files["analogues"].exists
    /\ files["analogues"].date > 0
    /\ files["params"].date > files["analogues"].date
    /\ "analogues" \notin computed

\* =========================================================================
\* Properties of the greedy loop of listing_analogs
\* =========================================================================
\* an iteration of a greedy while loop: a timestamp is appended to the list
PickMade ==
    /\ sel_pc \in {"while", "for"}
    /\ list_analogs' # list_analogs \/ list_analogs_col' # list_analogs_col

\* the timestamp the iteration has appended
Picked == IF sel_pc = "while" THEN list_analogs'[Len(list_analogs')]
          ELSE list_analogs_col'[Len(list_analogs_col')]

NoRepeat(l) == \A i, j \in DOMAIN l : i # j => l[i] # l[j]

\* C21: under every exclusion window, zero and one-sided windows included, each
\* iteration of the greedy loop leaves a strictly smaller pool that no longer holds
\* the picked timestamp, and no list returned holds a timestamp twice.
GreedyPoolShrinks ==
    /\ [][(TimedeltaWindow /\ PickMade) =>
             /\ Len(df_crit') < Len(df_crit)
             /\ Picked \notin Range(df_crit')]_vars
    /\ []((sel_pc = "returned" /\ TimedeltaWindow) =>
             \A l \in ReturnedLists : NoRepeat(l))

\* =========================================================================
\* Properties of the resolution of the windows of a split
\* =========================================================================
NoDateGiven ==
    /\ kw.pattern_start = None /\ kw.pattern_end = None
    /\ kw.test_start = None /\ kw.test_end = None

LengthGiven == kw.pattern_count # None \/ kw.test_count # None

SplitEntered == split_pc \notin {"call", "idle"}

\* C22: given window lengths and no pattern or test date, the split succeeds, the
\* test window being the last test_size rows of the series and the pattern window
\* the pattern_size rows just before them.
LengthsOnlySplitSucceeds ==
    (SplitEntered /\ NoDateGiven /\ LengthGiven) =>
        /\ split_pc # "raised"
        /\ SplitIndexesReturned =>
              /\ Span(ranges.test) = (nrows - sizes.test_size) .. (nrows - 1)
              /\ Span(ranges.pattern) =
                    (nrows - sizes.test_size - sizes.pattern_size)
                        .. (nrows - sizes.test_size - 1)

\* the row count the Window Resolver gives a window: get_length on the formatted
\* dates and the lengths of the window, None when nothing resolves
PatternCount ==
    get_length(fmt.pattern_start, fmt.pattern_end, kw.pattern_portion,
               kw.pattern_count, kw.pattern_length, TRUE).val.count
TestCount ==
    get_length(fmt.test_start, fmt.test_end, kw.test_portion,
               kw.test_count, kw.test_length, TRUE).val.count

\* the caller gave no count, portion or duration, and no two dates that make the
\* (start, end) pair of a window (an absent pattern_end or test_start being derived
\* from the other window)
NoLengthGiven ==
    /\ kw.pattern_count = None /\ kw.pattern_portion = None /\ kw.pattern_length = None
    /\ kw.test_count = None /\ kw.test_portion = None /\ kw.test_length = None
NoPairGiven ==
    /\ ~(kw.pattern_start # None /\ (kw.pattern_end # None \/ kw.test_start # None))
    /\ ~(kw.test_end # None /\ (kw.test_start # None \/ kw.pattern_end # None))
NeitherResolves == NoLengthGiven /\ NoPairGiven

NoWindowReturned ==
    data = [test |-> {}, pattern |-> {}, train_past |-> {}, train_future |-> {}]

\* C23: when one only of the pattern and test row counts resolves, the other is set
\* equal to it; when neither resolves, the split fails with the ValueError 'Not
\* enough information to split the DataFrame.' and returns no window.
MirroredOrRefused ==
    /\ CountsResolved =>
          /\ (PatternCount # None /\ TestCount = None) =>
                (sizes.pattern_size = PatternCount.v /\ sizes.test_size = PatternCount.v)
          /\ (PatternCount = None /\ TestCount # None) =>
                (sizes.pattern_size = TestCount.v /\ sizes.test_size = TestCount.v)
    /\ (NeitherResolves /\ split_pc \notin {"call", "idle", "formatted"}) =>
          (split_pc = "raised" /\ split_err = "ValueError" /\ NoWindowReturned)

\* =========================================================================
\* Properties of the precedence of get_length
\* =========================================================================
PairGiven == res_kwargs.date_start # None /\ res_kwargs.date_end # None
MalformedDate == res_kwargs.date_start.k # "dt" \/ res_kwargs.date_end.k # "dt"

\* nothing resolves: no pair, no integer count, no duration, no float portion
NothingResolves ==
    /\ ~PairGiven
    /\ res_kwargs.count = None /\ res_kwargs.time_length = None
    /\ res_kwargs.portion = None

\* the row count by the precedence pair > count > duration > portion > whole series
CountByPrecedence ==
    IF PairGiven
    THEN LET lo == MinOf({res_kwargs.date_start.v, res_kwargs.date_end.v})
             hi == MaxOf({res_kwargs.date_start.v, res_kwargs.date_end.v})
         IN  Cardinality({i \in Rows : lo <= i * resolution /\ i * resolution <= hi})
    ELSE IF res_kwargs.count # None THEN res_kwargs.count.v
    ELSE IF res_kwargs.time_length # None THEN Floor(res_kwargs.time_length.v, resolution)
    ELSE IF res_kwargs.portion # None THEN Floor(nrows * res_kwargs.portion.v, 10)
    ELSE nrows

LengthByPrecedence ==
    [time_length |-> Td(CountByPrecedence * resolution),
     count |-> IntV(CountByPrecedence), resolution |-> Td(resolution)]

GetLengthEnded == res_pc \in {"returned", "raised"}

\* C24 as claimed: get_length resolves by the precedence pair > count > duration >
\* portion > whole series, and the resolution it returns is always
\* index[1] - index[0].
ResolvedByPrecedence ==
    GetLengthEnded =>
        IF PairGiven /\ MalformedDate
        THEN res_pc = "raised" /\ res_out.err = "TypeError"
        ELSE res_pc = "returned" /\ res_out.val = LengthByPrecedence

\* C24: get_length resolves by the precedence pair > count > duration > portion;
\* when none of them is given it returns the length of the whole series if error is
\* false and (None, None, None) if error is true; whenever it returns a length the
\* resolution is index[1] - index[0].
ResolvedByPrecedenceOrSentinel ==
    GetLengthEnded =>
        IF PairGiven /\ MalformedDate
        THEN res_pc = "raised" /\ res_out.err = "TypeError"
        ELSE IF NothingResolves /\ res_kwargs.error
             THEN res_pc = "returned" /\ res_out.val = NoLength
             ELSE res_pc = "returned" /\ res_out.val = LengthByPrecedence

\* a count, a duration and a portion were given without a pair of dates, and the
\* count of 1 was returned where the duration makes 3 rows and the portion 2
CountWonOverDuration ==
    /\ res_pc = "returned"
    /\ ~PairGiven
    /\ res_kwargs.count = IntV(1)
    /\ res_kwargs.time_length = Td(Step + 1)
    /\ res_kwargs.portion = Fl(5)
    /\ resolution = 1 /\ nrows = 4
    /\ res_out.val.count = IntV(1)

\* =========================================================================
\* Properties of moving_application
\* =========================================================================
MovingEnded == mov_pc \in {"returned", "raised"}

\* the rows i-L+1..i of a column, for a row i >= L
FullWindow(col, i) == SubSeq(col, i - mov_kwargs.length + 1, i)

\* the score of a criterion on the full window of a column that ends at row i
FullWindowScore(c, i) ==
    WindowCompute(mov_kwargs.criterion, FullWindow(mov_df[c], i), mov_ref[c]).val

\* C25: for every criterion and every minimum-valid-fraction, moving_application
\* with a reference of L rows returns without error, the score at each of the first
\* L-1 rows being NaN and the score at a later row i being NaN or the score of the
\* L rows i-L+1..i.
ScoresNeedFullWindow ==
    MovingEnded =>
        /\ mov_pc = "returned"
        /\ \A c \in DOMAIN mov_out : \A i \in DOMAIN mov_out[c].scores :
              LET score == mov_out[c].scores[i]
              IN  IF i < mov_kwargs.length THEN score = NaN
                  ELSE \/ score = NaN
                       \/ mov_kwargs.criterion \in {"mse", "mdse"}
                             /\ score = FullWindowScore(c, i)
                       \/ mov_kwargs.criterion = "prod_mse"
                             /\ score = Times(FullWindowScore(1, i), FullWindowScore(2, i))
                       \/ mov_kwargs.criterion = "spectral_slope" /\ score = Fit

\* the score MSE.moving_application gives column c at row i
ColumnScore(c, i) ==
    RollingCompute("mse", mov_df[c], mov_ref[c],
                   MinPeriods(mov_kwargs.nanprop, mov_kwargs.length))[i].val

\* C26: ProdMSE.moving_application returns the single column prod_MSE, whose value
\* at a row is the product of the MSE scores of the columns at that row, and NaN
\* where the MSE score of a column is NaN.
ProductOfScoresOrNaN ==
    (mov_pc = "returned" /\ mov_kwargs.criterion = "prod_mse") =>
        /\ Len(mov_out) = 1
        /\ mov_out[1].name = "prod_MSE"
        /\ \A i \in DOMAIN mov_out[1].scores :
              mov_out[1].scores[i] =
                 IF ColumnScore(1, i) = NaN \/ ColumnScore(2, i) = NaN THEN NaN
                 ELSE Num(ColumnScore(1, i).num * ColumnScore(2, i).num,
                          ColumnScore(1, i).den * ColumnScore(2, i).den)

\* =========================================================================
\* Properties of SpectralSlope.compute
\* =========================================================================
\* the spectrum of the call: of the signal, or of the columns of the window
SpectrumOfCall == IF sp_with_df THEN psd_vect(sp_signals).val ELSE psd(Head(sp_signals))

\* more than the allowed number (2) of NaN bins above the zero-frequency bin, or
\* fewer than 3 bins
TooFewUsableBins == NanBinsAboveZero(SpectrumOfCall) > 2 \/ SpectrumOfCall.len < 3

\* C27: for a single signal and for a multi-column window, SpectralSlope.compute
\* returns NaN exactly when the spectrum has more than 2 NaN bins above the
\* zero-frequency bin or fewer than 3 bins, and the fitted slope minus the
\* reference otherwise.
SlopeNanOnlyWithoutBins ==
    sp_pc \in {"returned", "raised"} =>
        /\ sp_pc = "returned"
        /\ sp_out.val = NaN <=> TooFewUsableBins
        /\ ~TooFewUsableBins => sp_out.val = Fit

\* =========================================================================
\* Properties of the artifacts a Pipeline derives from its split
\* =========================================================================
\* the split specification the stored windows were cut by
StoredSplit == SplitOf(self.data_pattern)

\* C28: after any sequence of stage invocations the criterion series, the analog
\* lists and the ensembles the Pipeline holds derive from the split it holds: once
\* set_splitting has run with another pattern or test specification, none of them
\* still derives from the former pattern window.
DerivedFollowSplit ==
    (pipe_pc = "constructed" /\ "data_pattern" \in has) =>
        /\ "criterion" \in has =>
              /\ SplitOf(self.criterion.ref) = StoredSplit
              /\ SplitOf(self.criterion.train) = StoredSplit
        /\ "analogs_index" \in has =>
              \A i \in DOMAIN self.analogs_index.items :
                  SplitOf(self.analogs_index.items[i].of) = StoredSplit
        /\ "ensemble_analogs" \in has =>
              \A i \in DOMAIN self.ensemble_analogs.items :
                  SplitOf(self.ensemble_analogs.items[i].listed) = StoredSplit

\* =========================================================================
\* Properties of the standards
\* =========================================================================
\* C29: two Pipelines of one process that use the same standardizer name keep
\* separate parameters: whatever the other Pipeline has standardized meanwhile, the
\* unstandardize of a Pipeline's standard gives back the Pipeline's original data.
PipelinesKeepOwnParameters ==
    \A p \in Pipelines :
        pipelines[p].restored # << >> => pipelines[p].restored = pipelines[p].original_data

\* =========================================================================
\* Properties of a Pipeline run on one series
\* =========================================================================
\* the rows of the series that the window extracted for the k-th analog holds
ExtractedRows(k) == {frames[k].rows[j] : j \in DOMAIN frames[k].rows}

\* C30: in a Pipeline run on one series, no window extracted for an analog selected
\* among the scored timestamps of the training segments holds a row of the test
\* window.
NoTestRowExtracted ==
    split_pc = "done" => \A k \in DOMAIN frames : ExtractedRows(k) \cap data.test = {}
====
